---- MODULE Spec2Model ----
(***************************************************************************)
(* A model of the two HTTP transports of pixiv_rs:                         *)
(*   HttpClient       (src/src/network/mod.rs)                             *)
(*   BypassSniClient  (src/src/network/bypass_sni.rs)                      *)
(* and of the endpoint client BypassSniAppClient that drives the second    *)
(* (src/src/client/bypass_sni.rs).                                         *)
(*                                                                         *)
(* Strings the code parses are sequences of one-character strings, URLs    *)
(* are records (scheme https, a host name, a path), a header list is a     *)
(* sequence of [name, value] records in insertion order, a formatted       *)
(* string is the sequence of its parts.  The caller follows one transport  *)
(* at a time: building a new one drops the one before.                     *)
(***************************************************************************)
EXTENDS Integers, Sequences, FiniteSets, TLC

VARIABLES
    transport,   \* the transport the caller holds: an HttpClient, a BypassSniClient,
                 \* or NoTransport (none built yet, or moved into the endpoint client)
    app,         \* the BypassSniAppClient: its transport and its own base_url, or NoApp
    lastSet,     \* history: the argument of the latest set_access_token on that transport
    madeFrom,    \* history: the index in IpTexts of the text that transport was built from
    last,        \* observation of the most recent constructor or request call
    peer,        \* side-by-side runs: a BypassSniClient driven in step with transport
    pair,        \* side-by-side runs: the call of `last` as observed on peer
    now,         \* the wall clock (UTC): whole seconds since 1970 and a fraction
    auth,        \* the AuthClient the caller holds (its own HttpClient inside), or NoAuth
    seen,        \* history: the first generate_security_headers call of the run
    tasks,       \* shared use: the borrows of the transport the callers' tasks hold
    granted,     \* history: the AuthResponse of the latest login or refresh of that
                 \* AuthClient that returned Ok, or NoGrant
    frozen       \* history: the access token the endpoint client's transport held
                 \* when the endpoint client was built

vars == <<transport, app, lastSet, madeFrom, last, peer, pair, now, auth, seen, tasks, granted,
          frozen>>

\* What the transport calls leave alone.
aux == <<now, auth, seen, tasks, granted, frozen>>

None == "None"
NoTransport == [kind |-> "NoTransport"]
NoApp == [kind |-> "NoApp"]
NoCall == [op |-> "none"]
NoAuth == [kind |-> "NoAuth"]
NoTasks == [kind |-> "NoTasks"]
NoGrant == [kind |-> "NoGrant"]
Epoch == [secs |-> 0, frac |-> 0]

(***************************************************************************)
(* Text                                                                    *)
(***************************************************************************)
HexLower == <<"0", "1", "2", "3", "4", "5", "6", "7", "8", "9",
              "a", "b", "c", "d", "e", "f">>
HexUpper == <<"0", "1", "2", "3", "4", "5", "6", "7", "8", "9",
              "A", "B", "C", "D", "E", "F">>

IsDigit(c, radix) ==
    \E i \in 1..radix : HexLower[i] = c \/ HexUpper[i] = c

DigitVal(c) ==
    (CHOOSE i \in 1..Len(HexLower) : HexLower[i] = c \/ HexUpper[i] = c) - 1

RECURSIVE NumVal(_, _)
NumVal(s, radix) ==
    IF s = <<>> THEN 0
    ELSE NumVal(SubSeq(s, 1, Len(s) - 1), radix) * radix + DigitVal(s[Len(s)])

\* The pieces of s between occurrences of the separator c.
RECURSIVE SplitOn(_, _)
SplitOn(s, c) ==
    IF \A i \in DOMAIN s : s[i] # c THEN <<s>>
    ELSE LET p == CHOOSE i \in DOMAIN s :
                      s[i] = c /\ \A j \in 1..(i - 1) : s[j] # c
         IN  <<SubSeq(s, 1, p - 1)>> \o SplitOn(SubSeq(s, p + 1, Len(s)), c)

\* The decimal digits of n >= 0.
RECURSIVE Digits(_)
Digits(n) ==
    IF n < 10 THEN <<HexLower[n + 1]>>
    ELSE Append(Digits(n \div 10), HexLower[(n % 10) + 1])

\* {:x}: the hex digits of n >= 0, lower case, no leading zero.
RECURSIVE HexDigits(_)
HexDigits(n) ==
    IF n < 16 THEN <<HexLower[n + 1]>>
    ELSE Append(HexDigits(n \div 16), HexLower[(n % 16) + 1])

\* The texts one after the other, sep between them.
RECURSIVE Join(_, _)
Join(texts, sep) ==
    IF texts = <<>> THEN <<>>
    ELSE IF Len(texts) = 1 THEN texts[1]
    ELSE texts[1] \o sep \o Join(Tail(texts), sep)

(***************************************************************************)
(* ip.parse::<std::net::IpAddr>() (bypass_sni.rs 38-39): a dotted quad of  *)
(* decimal octets, or eight 16-bit hex groups with at most one "::" and an *)
(* optional dotted quad in place of the last two groups.                   *)
(***************************************************************************)

ParseFail == [ok |-> FALSE]

\* One decimal octet: 1 to 3 digits, no leading zero, at most 255.
ReadOctet(s) ==
    /\ Len(s) \in 1..3
    /\ \A i \in DOMAIN s : IsDigit(s[i], 10)
    /\ (Len(s) > 1 => s[1] # "0")
    /\ NumVal(s, 10) <= 255

\* One hex group: 1 to 4 hex digits, leading zeros allowed.
ReadGroup(s) ==
    /\ Len(s) \in 1..4
    /\ \A i \in DOMAIN s : IsDigit(s[i], 16)

ParseIpv4(s) ==
    LET parts == SplitOn(s, ".")
    IN  IF Len(parts) = 4 /\ \A i \in 1..4 : ReadOctet(parts[i])
        THEN [ok |-> TRUE,
              ip |-> [v |-> 4, parts |-> [i \in 1..4 |-> NumVal(parts[i], 10)]]]
        ELSE ParseFail

\* The groups of one side of an IPv6 literal, at most `limit` of them; a
\* dotted quad may stand for the last two when two slots are left for it.
ReadGroups(s, limit) ==
    IF s = <<>> THEN [ok |-> TRUE, groups |-> <<>>, v4 |-> FALSE]
    ELSE
    LET pieces == SplitOn(s, ":")
        n      == Len(pieces)
        lastV4 == ParseIpv4(pieces[n])
    IN  IF /\ \A i \in 1..(n - 1) : ReadGroup(pieces[i])
           /\ ReadGroup(pieces[n])
           /\ n <= limit
        THEN [ok |-> TRUE, v4 |-> FALSE,
              groups |-> [i \in 1..n |-> NumVal(pieces[i], 16)]]
        ELSE IF /\ \A i \in 1..(n - 1) : ReadGroup(pieces[i])
                /\ lastV4.ok
                /\ n + 1 <= limit
        THEN [ok |-> TRUE, v4 |-> TRUE,
              groups |-> [i \in 1..(n + 1) |->
                  IF i < n THEN NumVal(pieces[i], 16)
                  ELSE IF i = n
                       THEN lastV4.ip.parts[1] * 256 + lastV4.ip.parts[2]
                       ELSE lastV4.ip.parts[3] * 256 + lastV4.ip.parts[4]]]
        ELSE [ok |-> FALSE, groups |-> <<>>, v4 |-> FALSE]

ParseIpv6(s) ==
    LET gaps == {i \in 1..(Len(s) - 1) : s[i] = ":" /\ s[i + 1] = ":"}
    IN  IF gaps = {}
        THEN LET all == ReadGroups(s, 8)
             IN  IF all.ok /\ Len(all.groups) = 8
                 THEN [ok |-> TRUE, ip |-> [v |-> 6, parts |-> all.groups]]
                 ELSE ParseFail
        ELSE LET p    == CHOOSE i \in gaps : \A j \in gaps : i <= j
                 head == ReadGroups(SubSeq(s, 1, p - 1), 8 - 1)
                 tail == ReadGroups(SubSeq(s, p + 2, Len(s)),
                                    8 - 1 - Len(head.groups))
             IN  IF head.ok /\ ~head.v4 /\ tail.ok
                 THEN [ok |-> TRUE,
                       ip |-> [v |-> 6,
                               parts |-> [i \in 1..8 |->
                                   IF i <= Len(head.groups) THEN head.groups[i]
                                   ELSE IF i > 8 - Len(tail.groups)
                                        THEN tail.groups[i - (8 - Len(tail.groups))]
                                        ELSE 0]]]
                 ELSE ParseFail

\* A mis-parse that takes any three decimal digits for an octet.
ParseIpAddrLoose(s) ==
    LET parts == SplitOn(s, ".")
    IN  IF Len(parts) = 4 /\ \A i \in 1..4 :
               Len(parts[i]) \in 1..3
               /\ \A k \in DOMAIN parts[i] : IsDigit(parts[i][k], 10)
        THEN [ok |-> TRUE,
              ip |-> [v |-> 4, parts |-> [i \in 1..4 |-> NumVal(parts[i], 10)]]]
        ELSE ParseIpv6(s)

\* A parser that knows dotted quads only.
ParseIpAddrV4Only(s) == ParseIpv4(s)

ParseIpAddr(s) ==
    IF ParseIpv4(s).ok THEN ParseIpv4(s) ELSE ParseIpv6(s)

(***************************************************************************)
(* Display of std::net::IpAddr, as format!("https://{}", ip) prints it     *)
(* (bypass_sni.rs 63): decimal octets; lower-case hex groups with the      *)
(* first longest run of two or more zero groups written "::", and the      *)
(* dotted quad for an IPv4-mapped address.                                 *)
(***************************************************************************)
DisplayIpv4(parts) == Join([i \in 1..4 |-> Digits(parts[i])], <<".">>)

DisplayIpv6(g) ==
    IF (\A i \in 1..5 : g[i] = 0) /\ g[6] = 65535
    THEN <<":", ":", "f", "f", "f", "f", ":">>
         \o DisplayIpv4(<<g[7] \div 256, g[7] % 256, g[8] \div 256, g[8] % 256>>)
    ELSE
    LET Zero(a, b) == \A i \in a..b : g[i] = 0
        runs == {r \in (1..8) \X (1..8) :
                    r[1] < r[2] /\ Zero(r[1], r[2])
                    /\ (r[1] = 1 \/ g[r[1] - 1] # 0)
                    /\ (r[2] = 8 \/ g[r[2] + 1] # 0)}
        Hex(a, b) == Join([i \in 1..(b - a + 1) |-> HexDigits(g[a + i - 1])], <<":">>)
    IN  IF runs = {} THEN Hex(1, 8)
        ELSE LET r == CHOOSE r \in runs :
                          \A q \in runs :
                              \/ r[2] - r[1] > q[2] - q[1]
                              \/ (r[2] - r[1] = q[2] - q[1] /\ r[1] <= q[1])
             IN  Hex(1, r[1] - 1) \o <<":", ":">> \o Hex(r[2] + 1, 8)

\* A display that hands back the groups in upper case.
DisplayIpUpper(ip) ==
    IF ip.v = 4 THEN DisplayIpv4(ip.parts)
    ELSE LET text == DisplayIpv6(ip.parts)
         IN  [i \in DOMAIN text |->
                 IF \E k \in 11..16 : HexLower[k] = text[i]
                 THEN HexUpper[CHOOSE k \in 11..16 : HexLower[k] = text[i]]
                 ELSE text[i]]

DisplayIp(ip) ==
    IF ip.v = 4 THEN DisplayIpv4(ip.parts) ELSE DisplayIpv6(ip.parts)

(***************************************************************************)
(* The texts handed to the constructors, each with what it is: a dotted    *)
(* quad ("v4"), an IPv6 literal ("v6") or neither ("none"), and the        *)
(* address it denotes.                                                     *)
(***************************************************************************)
IpTexts == <<
    [text |-> <<"2", "1", "0", ".", "1", "4", "0", ".", "1", "3", "1", ".", "1", "4", "5">>,
     literal |-> "v4", addr |-> [v |-> 4, parts |-> <<210, 140, 131, 145>>]],
    [text |-> <<"1", "2", "7", ".", "0", ".", "0", ".", "1">>,
     literal |-> "v4", addr |-> [v |-> 4, parts |-> <<127, 0, 0, 1>>]],
    [text |-> <<":", ":", "1">>,
     literal |-> "v6", addr |-> [v |-> 6, parts |-> <<0, 0, 0, 0, 0, 0, 0, 1>>]],
    [text |-> <<"2", "0", "0", "1", ":", "d", "b", "8", ":", ":", "A">>,
     literal |-> "v6", addr |-> [v |-> 6, parts |-> <<8193, 3512, 0, 0, 0, 0, 0, 10>>]],
    [text |-> <<":", ":", "f", "f", "f", "f", ":", "1", ".", "2", ".", "3", ".", "4">>,
     literal |-> "v6", addr |-> [v |-> 6, parts |-> <<0, 0, 0, 0, 0, 65535, 258, 772>>]],
    [text |-> <<"i", "n", "v", "a", "l", "i", "d", "_", "i", "p">>,
     literal |-> "none", addr |-> [v |-> 0, parts |-> <<>>]],
    [text |-> <<"n", "o", "t", "_", "a", "n", "_", "i", "p">>,
     literal |-> "none", addr |-> [v |-> 0, parts |-> <<>>]],
    [text |-> <<>>,
     literal |-> "none", addr |-> [v |-> 0, parts |-> <<>>]],
    [text |-> <<"a", "p", "p", "-", "a", "p", "i", ".", "p", "i", "x", "i", "v", ".", "n", "e", "t">>,
     literal |-> "none", addr |-> [v |-> 0, parts |-> <<>>]],
    [text |-> <<"2", "5", "6", ".", "1", ".", "1", ".", "1">>,
     literal |-> "none", addr |-> [v |-> 0, parts |-> <<>>]],
    [text |-> <<"1", ".", "2", ".", "3">>,
     literal |-> "none", addr |-> [v |-> 0, parts |-> <<>>]],
    [text |-> <<"1", ":", ":", "2", ":", ":", "3">>,
     literal |-> "none", addr |-> [v |-> 0, parts |-> <<>>]]
>>

(***************************************************************************)
(* Values                                                                  *)
(***************************************************************************)
CanonicalHost == "app-api.pixiv.net"
HttpsPort == 443
NoIp == [v |-> 0, parts |-> <<>>]

\* Error values of src/src/error.rs, as far as the transports raise them.
InvalidUrlError(text) ==
    [kind |-> "NetworkError", variant |-> "InvalidUrl",
     msg |-> <<"Invalid IP address: ", text>>]
RequestError(cause) ==
    [kind |-> "NetworkError", variant |-> "RequestError", msg |-> <<cause>>]
ApiError(status, text) ==
    [kind |-> "ApiError", variant |-> "ApiError",
     msg |-> <<"API request failed: ", status, " - ", text>>]

Ok(v) == [ok |-> TRUE, value |-> v]
Err(e) == [ok |-> FALSE, err |-> e]

(***************************************************************************)
(* The reqwest client a transport holds: its builder settings.             *)
(***************************************************************************)
\* A standard client that takes over the bypass client's trust setting.
StandardReqwestClientLax ==
    [user_agent |-> <<"PixivRustClient/0.1.0">>,
     accept_invalid_certs |-> TRUE,
     resolve |-> {}]

\* Client::builder().user_agent("PixivRustClient/0.1.0").build()
StandardReqwestClient ==
    [user_agent |-> <<"PixivRustClient/0.1.0">>,
     accept_invalid_certs |-> FALSE,
     resolve |-> {}]

\* A pinned client that forgets the resolution override.
BypassReqwestClientNoOverride(ip) ==
    [user_agent |-> <<>>,
     accept_invalid_certs |-> TRUE,
     resolve |-> {}]

\* Client::builder().danger_accept_invalid_certs(true)
\*     .resolve("app-api.pixiv.net", SocketAddr::new(ip, 443)).build()
BypassReqwestClient(ip) ==
    [user_agent |-> <<>>,
     accept_invalid_certs |-> TRUE,
     resolve |-> {[host |-> CanonicalHost, addr |-> [ip |-> ip, port |-> HttpsPort]]}]

(***************************************************************************)
(* Construction                                                            *)
(***************************************************************************)
\* HttpClient::new (an HttpClient has no ip: NoIp stands in the record)
HttpClient_new ==
    [kind |-> "HttpClient",
     client |-> StandardReqwestClient,
     access_token |-> None,
     refresh_token |-> None,
     base_url |-> <<"https://app-api.pixiv.net">>,
     ip |-> NoIp]

\* BypassSniClient::new: the Result, and the network traffic it caused.
BypassSniClient_new(text) ==
    LET parsed == ParseIpAddr(text)
    IN  IF ~parsed.ok
        THEN [result |-> Err(InvalidUrlError(text)), io |-> <<>>]
        ELSE [result |-> Ok([kind |-> "BypassSniClient",
                             client |-> BypassReqwestClient(parsed.ip),
                             access_token |-> None,
                             refresh_token |-> None,
                             base_url |-> <<"https://", DisplayIp(parsed.ip)>>,
                             ip |-> parsed.ip]),
              io |-> <<>>]

\* BypassSniAppClient::with_ip: `?` hands the constructor's error on.
BypassSniAppClient_with_ip(text) ==
    LET made == BypassSniClient_new(text)
    IN  IF ~made.result.ok
        THEN [result |-> made.result, io |-> made.io]
        ELSE [result |-> Ok([http_client |-> made.result.value,
                             base_url |-> [scheme |-> "https", host |-> CanonicalHost]]),
              io |-> made.io]

(***************************************************************************)
(* Requests: reqwest's RequestBuilder as the transports use it.            *)
(***************************************************************************)
NoBody == [some |-> FALSE]
Some(v) == [some |-> TRUE, v |-> v]

\* Texts HeaderValue refuses (a control character in them).
BadHeaderTexts == {"tok\nX"}

\* A URL is absolute when it names a scheme; request() refuses any other.
UrlParses(url) == url.scheme # ""

Format(base, path) == [scheme |-> base.scheme, host |-> base.host, path |-> path]

HeaderPresent(headers, name) == \E i \in DOMAIN headers : headers[i].name = name
HeaderValues(headers, name) ==
    SelectSeq(headers, LAMBDA h : h.name = name)

\* HeaderMap::insert: the one value under that name.
HeaderInsert(headers, name, value) ==
    Append(SelectSeq(headers, LAMBDA h : h.name # name),
           [name |-> name, value |-> value])

\* client.request(method, url)
NewRequest(method, url) ==
    [method |-> method, url |-> url, headers |-> <<>>, body |-> NoBody,
     error |-> IF UrlParses(url) THEN None ELSE "builder: relative URL without a base"]

\* RequestBuilder::headers: every entry of the map replaces that name.
RECURSIVE WithHeaders(_, _)
WithHeaders(req, map) ==
    IF map = <<>> \/ req.error # None THEN req
    ELSE WithHeaders(
            [req EXCEPT !.headers = HeaderInsert(@, Head(map).name, Head(map).value)],
            Tail(map))

\* RequestBuilder::header: appends, or records the error of a refused value.
WithHeader(req, name, value) ==
    IF req.error # None THEN req
    ELSE IF \E i \in DOMAIN value : value[i] \in BadHeaderTexts
    THEN [req EXCEPT !.error = "builder: invalid header value"]
    ELSE [req EXCEPT !.headers = Append(@, [name |-> name, value |-> value])]

\* RequestBuilder::json: a JSON body, and its content type unless one is set.
WithJson(req, body) ==
    IF req.error # None THEN req
    ELSE [req EXCEPT
            !.headers = IF HeaderPresent(@, "content-type") THEN @
                        ELSE Append(@, [name |-> "content-type",
                                        value |-> <<"application/json">>]),
            !.body = Some(<<"json", body>>)]

\* Where the client's connector opens the socket for a URL: the override of
\* that host name when the client has one, the system resolver otherwise;
\* the port is the scheme's.
Connect(client, url) ==
    IF \E o \in client.resolve : o.host = url.host
    THEN LET o == CHOOSE o \in client.resolve : o.host = url.host
         IN  [ip |-> o.addr.ip, port |-> HttpsPort, dns |-> None]
    ELSE [ip |-> NoIp, port |-> HttpsPort, dns |-> url.host]

\* What goes out for a built request: the client's default User-Agent and
\* the Host of the URL are filled in when the request names none.
OnWire(client, req) ==
    LET withUa   == IF client.user_agent # <<>> /\ ~HeaderPresent(req.headers, "user-agent")
                    THEN Append(req.headers,
                                [name |-> "user-agent", value |-> client.user_agent])
                    ELSE req.headers
        withHost == IF HeaderPresent(withUa, "host") THEN withUa
                    ELSE Append(withUa, [name |-> "host", value |-> <<req.url.host>>])
    IN  [method |-> req.method, url |-> req.url, headers |-> withHost,
         body |-> req.body, target |-> Connect(client, req.url),
         verify_certs |-> ~client.accept_invalid_certs]

\* request.send().await on the first answer the network has: a refused
\* builder sends nothing; otherwise one exchange, failed or answered.
Send(client, req, outcome) ==
    IF req.error # None
    THEN [sent |-> <<>>, served |-> <<>>, response |-> Err(RequestError(req.error))]
    ELSE IF outcome.kind = "fail"
    THEN [sent |-> <<OnWire(client, req)>>, served |-> <<outcome>>,
          response |-> Err(RequestError("transport"))]
    ELSE [sent |-> <<OnWire(client, req)>>, served |-> <<outcome>>,
          response |-> Ok([status |-> outcome.status, body |-> outcome.body,
                           readable |-> outcome.readable, consumed |-> FALSE])]

\* StatusCode::is_success
IsSuccess(status) == status >= 200 /\ status <= 299

\* Response::text: takes the body, or fails while reading it.
ResponseText(response) ==
    IF response.readable THEN Ok(response.body) ELSE Err(RequestError("body"))

(***************************************************************************)
(* send_request, get, post                                                 *)
(***************************************************************************)
\* A header step that names the token twice.
AddAuthorizationTwice(req, token) ==
    IF token # None
    THEN WithHeader(WithHeader(req, "authorization", <<"Bearer ", token>>),
                    "authorization", <<"Bearer ", token>>)
    ELSE req

\* if let Some(token) = &self.access_token { request.header("Authorization", ..) }
AddAuthorization(req, token) ==
    IF token # None
    THEN WithHeader(req, "authorization", <<"Bearer ", token>>)
    ELSE req

\* if let Some(body) = body { request.json(body) }
AddBody(req, body) ==
    IF body.some THEN WithJson(req, body.v) ELSE req

\* A status check that lets redirects through.
CheckStatusBelow400(response) ==
    IF response.status >= 400
    THEN LET text == ResponseText(response)
         IN  Err(ApiError(response.status,
                          IF text.ok THEN text.value
                          ELSE "Failed to get error information"))
    ELSE Ok(response)

\* A status check whose error path fails on an unreadable body.
CheckStatusStrictBody(response) ==
    IF ~IsSuccess(response.status)
    THEN LET text == ResponseText(response)
         IN  IF text.ok THEN Err(ApiError(response.status, text.value))
             ELSE text
    ELSE Ok(response)

\* A status check that reads the body of every response before deciding.
CheckStatusPeekBody(response) ==
    LET text == ResponseText(response)
    IN  IF ~IsSuccess(response.status)
        THEN Err(ApiError(response.status,
                          IF text.ok THEN text.value
                          ELSE "Failed to get error information"))
        ELSE Ok([response EXCEPT !.consumed = TRUE])

\* if !response.status().is_success() { return Err(ApiError(..)) }; Ok(response)
CheckStatus(response) ==
    IF ~IsSuccess(response.status)
    THEN LET text == ResponseText(response)
         IN  Err(ApiError(response.status,
                          IF text.ok THEN text.value
                          ELSE "Failed to get error information"))
    ELSE Ok(response)

\* A dispatch that tries once more after a transport failure.
DispatchWithRetry(client, req, net) ==
    LET first == Send(client, req, net[1])
    IN  IF first.response.ok \/ first.sent = <<>>
        THEN [sent |-> first.sent, served |-> first.served,
              result |-> IF first.response.ok THEN CheckStatus(first.response.value)
                         ELSE first.response]
        ELSE LET second == Send(client, req, net[2])
             IN  [sent |-> first.sent \o second.sent,
                  served |-> first.served \o second.served,
                  result |-> IF second.response.ok
                             THEN CheckStatus(second.response.value)
                             ELSE second.response]

\* let response = request.send().await?; then the status check.
Dispatch(client, req, net) ==
    LET first == Send(client, req, net[1])
    IN  [sent |-> first.sent, served |-> first.served,
         result |-> IF first.response.ok THEN CheckStatus(first.response.value)
                    ELSE first.response]

\* HttpClient::send_request
HttpClient_send_request(self, method, url, body, net) ==
    Dispatch(self.client,
             AddBody(AddAuthorization(NewRequest(method, url), self.access_token),
                     body),
             net)

\* A bypass request that leaves Host to the HTTP stack once a token is set.
BypassSniClient_send_request_HostUnlessToken(self, method, url, body, net) ==
    LET headers == IF self.access_token = None
                   THEN HeaderInsert(<<>>, "host", <<"app-api.pixiv.net">>)
                   ELSE <<>>
    IN  Dispatch(self.client,
                 AddBody(AddAuthorization(
                             WithHeaders(NewRequest(method, url), headers),
                             self.access_token),
                         body),
                 net)

\* A bypass request that never names the token.
BypassSniClient_send_request_NoAuth(self, method, url, body, net) ==
    LET headers == HeaderInsert(<<>>, "host", <<"app-api.pixiv.net">>)
    IN  Dispatch(self.client,
                 AddBody(WithHeaders(NewRequest(method, url), headers), body),
                 net)

\* BypassSniClient::send_request
BypassSniClient_send_request(self, method, url, body, net) ==
    LET headers == HeaderInsert(<<>>, "host", <<"app-api.pixiv.net">>)
    IN  Dispatch(self.client,
                 AddBody(AddAuthorization(
                             WithHeaders(NewRequest(method, url), headers),
                             self.access_token),
                         body),
                 net)

\* send_request of the transport at hand.
send_request(self, method, url, body, net) ==
    IF self.kind = "HttpClient"
    THEN HttpClient_send_request(self, method, url, body, net)
    ELSE BypassSniClient_send_request(self, method, url, body, net)

\* get: send_request(Method::GET, url, None)
get(self, url, net) == send_request(self, "GET", url, NoBody, net)

\* post: send_request(Method::POST, url, Some(body))
post(self, url, body, net) == send_request(self, "POST", url, Some(body), net)

(***************************************************************************)
(* Token and base URL fields                                               *)
(***************************************************************************)
\* A setter that keeps a token already present.
set_access_token_keep_first(self, token) ==
    IF self.access_token = None THEN [self EXCEPT !.access_token = token] ELSE self

\* A set_access_token that takes the refresh token away.
set_access_token_alone(self, token) ==
    [self EXCEPT !.access_token = token, !.refresh_token = None]

set_access_token(self, token) == [self EXCEPT !.access_token = token]

\* Setters that do more, or less, than their name says.
set_refresh_token_both(self, token) ==
    [self EXCEPT !.refresh_token = token, !.access_token = token]
set_refresh_token_dropped(self, token) == self

set_refresh_token(self, token) == [self EXCEPT !.refresh_token = token]

\* A set_base_url that also points the override at the new base.
set_base_url_repin(self, url) ==
    [self EXCEPT !.base_url = url,
                 !.client.resolve = {[host |-> o.host,
                                      addr |-> [ip |-> NoIp, port |-> o.addr.port]]
                                     : o \in @}]

set_base_url(self, url) == [self EXCEPT !.base_url = url]

\* access_token(), refresh_token() (Option<&str>: None or the text) and
\* base_url()
access_token(self) == self.access_token
refresh_token(self) == self.refresh_token
base_url(self) == self.base_url

(***************************************************************************)
(* The wall clock and generate_security_headers                            *)
(***************************************************************************)
\* The clock counts whole seconds and TicksPerSecond fractions of one.
TicksPerSecond == 2

\* A numeric item left as its bare digits.
PadUnpadded(n, width) == Digits(n)

\* A numeric chrono item: the digits of n zero-padded on the left to width,
\* as %Y pads to 4 and %m, %d, %H, %M, %S pad to 2.
Pad(n, width) ==
    LET d == Digits(n)
    IN  IF Len(d) >= width THEN d
        ELSE [i \in 1..width |->
                 IF i <= width - Len(d) THEN "0" ELSE d[i - (width - Len(d))]]

\* The date (proleptic Gregorian calendar) of a count of days since 1970-01-01.
CivilFromDays(days) ==
    LET z   == days + 719468
        era == z \div 146097
        doe == z - era * 146097
        yoe == (doe - doe \div 1460 + doe \div 36524 - doe \div 146096) \div 365
        doy == doe - (365 * yoe + yoe \div 4 - yoe \div 100)
        mp  == (5 * doy + 2) \div 153
        m   == IF mp < 10 THEN mp + 3 ELSE mp - 9
    IN  [year  |-> yoe + era * 400 + (IF m <= 2 THEN 1 ELSE 0),
         month |-> m,
         day   |-> doy - (153 * mp + 2) \div 5 + 1]

\* A time format that stops at the minute.
FormatTimeToMinute(t) ==
    LET date == CivilFromDays(t.secs \div 86400)
        sod  == t.secs % 86400
    IN  Pad(date.year, 4) \o <<"-">> \o Pad(date.month, 2) \o <<"-">>
        \o Pad(date.day, 2) \o <<"T">> \o Pad(sod \div 3600, 2) \o <<":">>
        \o Pad((sod % 3600) \div 60, 2) \o <<":">> \o <<"0", "0">>
        \o <<"+", "0", "0", ":", "0", "0">>

\* Utc::now().format("%Y-%m-%dT%H:%M:%S+00:00").to_string(): the fraction of
\* the second is dropped.
FormatTime(t) ==
    LET date == CivilFromDays(t.secs \div 86400)
        sod  == t.secs % 86400
    IN  Pad(date.year, 4) \o <<"-">> \o Pad(date.month, 2) \o <<"-">>
        \o Pad(date.day, 2) \o <<"T">> \o Pad(sod \div 3600, 2) \o <<":">>
        \o Pad((sod % 3600) \div 60, 2) \o <<":">> \o Pad(sod % 60, 2)
        \o <<"+", "0", "0", ":", "0", "0">>

\* The secret both generators append to the time.
HashSecret == <<"28c1fdd170a5204386cb1313c7077b34f83e4aaf4aa829ce78c231e05b0bae2c">>

\* format!("{:x}", md5::compute(input)): the digest is not computed here; it
\* is named by the text it digests, so equal inputs give equal digests and
\* different inputs different ones.
Md5Hex(input) == <<"md5:">> \o input

\* A generator that mixes the access token into the hash.
HttpClient_generate_security_headers_keyed(self, clock) ==
    LET local_time == FormatTime(clock)
        hash_input == local_time \o HashSecret \o <<self.access_token>>
        hash       == Md5Hex(hash_input)
    IN  HeaderInsert(HeaderInsert(<<>>, "x-client-time", local_time),
                     "x-client-hash", hash)

\* HttpClient::generate_security_headers, reading `clock` from Utc::now()
HttpClient_generate_security_headers(self, clock) ==
    LET local_time == FormatTime(clock)
        hash_input == local_time \o HashSecret
        hash       == Md5Hex(hash_input)
    IN  HeaderInsert(HeaderInsert(<<>>, "x-client-time", local_time),
                     "x-client-hash", hash)

\* BypassSniClient::generate_security_headers
BypassSniClient_generate_security_headers(self, clock) ==
    LET local_time == FormatTime(clock)
        hash_input == local_time \o HashSecret
        hash       == Md5Hex(hash_input)
    IN  HeaderInsert(HeaderInsert(<<>>, "x-client-time", local_time),
                     "x-client-hash", hash)

\* generate_security_headers of the transport at hand.
generate_security_headers(self, clock) ==
    IF self.kind = "HttpClient"
    THEN HttpClient_generate_security_headers(self, clock)
    ELSE BypassSniClient_generate_security_headers(self, clock)

(***************************************************************************)
(* AuthClient (src/src/auth.rs)                                            *)
(***************************************************************************)
AuthUrl == [scheme |-> "https", host |-> "oauth.secure.pixiv.net", path |-> "/auth/token"]

AuthError(failed, text) ==
    [kind |-> "AuthError", variant |-> "AuthError", msg |-> <<failed, text>>]

\* AuthClient::new
AuthClient_new ==
    [kind |-> "AuthClient", client |-> HttpClient_new, auth_url |-> AuthUrl]

\* The entries of a HashMap in one of the orders its iterator may give.
InOrder(map, order) == [i \in DOMAIN order |-> map[order[i]]]

\* for (key, value) in security_headers { request = request.header(&key, value) }
RECURSIVE WithEachHeader(_, _)
WithEachHeader(req, entries) ==
    IF entries = <<>> THEN req
    ELSE WithEachHeader(WithHeader(req, Head(entries).name, Head(entries).value),
                        Tail(entries))

\* RequestBuilder::form: a urlencoded body, and its content type.
WithForm(req, form) ==
    IF req.error # None THEN req
    ELSE [req EXCEPT
            !.headers = HeaderInsert(@, "content-type",
                                     <<"application/x-www-form-urlencoded">>),
            !.body = Some(<<"form", form>>)]

\* form_data of login
LoginForm(username, password) ==
    {<<"client_id", "MOBrBDS8blbauoSck0ZfDbtuzpyT">>,
     <<"client_secret", "lsACyCD94FhDUtGTXi3QzcFE2uU1hqtDaKeqrdwj">>,
     <<"grant_type", "password">>,
     <<"username", username>>,
     <<"password", password>>,
     <<"get_secure_url", "true">>}

\* form_data of refresh_access_token
RefreshForm(token) ==
    {<<"client_id", "MOBrBDS8blbauoSck0ZfDbtuzpyT">>,
     <<"client_secret", "lsACyCD94FhDUtGTXi3QzcFE2uU1hqtDaKeqrdwj">>,
     <<"grant_type", "refresh_token">>,
     <<"refresh_token", token>>,
     <<"get_secure_url", "true">>}

\* The token request as send_request would dress it: with the bearer of the
\* token held.
TokenRequestWithBearer(self, form, clock, order) ==
    LET security_headers == HttpClient_generate_security_headers(self.client, clock)
    IN  WithForm(WithEachHeader(
                     IF self.client.access_token = None
                     THEN NewRequest("POST", self.auth_url)
                     ELSE WithHeader(NewRequest("POST", self.auth_url), "authorization",
                                     <<"Bearer ", self.client.access_token>>),
                     InOrder(security_headers, order)),
                 form)

\* self.client.client.post(&self.auth_url), the security headers of this
\* call one by one, then the form.
TokenRequest(self, form, clock, order) ==
    LET security_headers == HttpClient_generate_security_headers(self.client, clock)
    IN  WithForm(WithEachHeader(NewRequest("POST", self.auth_url),
                                InOrder(security_headers, order)),
                 form)

\* A status check that answers the way send_request does.
CheckAuthStatusAsApi(response, failed) ==
    IF ~IsSuccess(response.status)
    THEN LET text == ResponseText(response)
         IN  Err(ApiError(response.status,
                          IF text.ok THEN text.value
                          ELSE "Failed to get error information"))
    ELSE Ok(response)

\* if !response.status().is_success() { return Err(PixivError::AuthError(..)) }
CheckAuthStatus(response, failed) ==
    IF ~IsSuccess(response.status)
    THEN LET text == ResponseText(response)
         IN  Err(AuthError(failed,
                           IF text.ok THEN text.value
                           ELSE "Failed to get error information"))
    ELSE Ok(response)

\* serde_json on an AuthResponse: the bodies that decode, and what they
\* decode to; obtained_at is skipped and takes its default.
ParseAuthResponse(text) ==
    IF text = "{auth1}"
    THEN Ok([access_token |-> "acc1", refresh_token |-> "ref1",
             token_type |-> "bearer", expires_in |-> 3600, obtained_at |-> Epoch])
    ELSE IF text = "{auth2}"
    THEN Ok([access_token |-> "acc2", refresh_token |-> "ref2",
             token_type |-> "bearer", expires_in |-> 3600, obtained_at |-> Epoch])
    ELSE Err(RequestError("decode"))

\* response.json::<AuthResponse>().await: reads the body, then decodes it.
ResponseJson(response) ==
    LET text == ResponseText(response)
    IN  IF ~text.ok THEN text ELSE ParseAuthResponse(text.value)

\* What both calls do with the outcome of send(): `?`, the status check,
\* the decoding, obtained_at = Utc::now() (read as `done`), the two setters.
TakeTokens(self, first, failed, done) ==
    IF ~first.response.ok
    THEN [self |-> self, result |-> first.response]
    ELSE LET checked == CheckAuthStatus(first.response.value, failed)
         IN  IF ~checked.ok
             THEN [self |-> self, result |-> checked]
             ELSE LET parsed == ResponseJson(checked.value)
                  IN  IF ~parsed.ok
                      THEN [self |-> self, result |-> parsed]
                      ELSE LET auth_response ==
                                   [parsed.value EXCEPT !.obtained_at = done]
                           IN  [self |-> [self EXCEPT !.client =
                                    set_refresh_token(
                                        set_access_token(@, auth_response.access_token),
                                        auth_response.refresh_token)],
                                result |-> Ok(auth_response)]

\* AuthClient::login
AuthClient_login(self, username, password, clock, order, net, done) ==
    LET first == Send(self.client.client,
                      TokenRequest(self, LoginForm(username, password), clock, order),
                      net[1])
        taken == TakeTokens(self, first, "Login failed: ", done)
    IN  [self |-> taken.self, sent |-> first.sent, served |-> first.served,
         result |-> taken.result]

\* AuthClient::refresh_access_token
AuthClient_refresh_access_token(self, token, clock, order, net, done) ==
    LET first == Send(self.client.client,
                      TokenRequest(self, RefreshForm(token), clock, order),
                      net[1])
        taken == TakeTokens(self, first, "Token refresh failed: ", done)
    IN  [self |-> taken.self, sent |-> first.sent, served |-> first.served,
         result |-> taken.result]


(***************************************************************************)
(* BypassSniAppClient                                                      *)
(***************************************************************************)
\* BypassSniAppClient::new
BypassSniAppClient_new(http_client) ==
    [http_client |-> http_client,
     base_url |-> [scheme |-> "https", host |-> CanonicalHost]]

\* serde_json::from_str::<IllustDetail>: the bodies that decode.
DecodesAsIllustDetail(text) == text = "{illust}"

\* BypassSniAppClient::illust_detail
illust_detail(self, illust_id, net) ==
    LET url    == Format(self.base_url, "/v1/illust/detail")
        params == <<<<"illust_id", illust_id>>>>
        call   == BypassSniClient_send_request(self.http_client, "GET", url,
                                               Some(params), net)
        text   == ResponseText(call.result.value)
    IN  [sent |-> call.sent, served |-> call.served,
         result |-> IF ~call.result.ok THEN call.result
                    ELSE IF ~text.ok THEN text
                    ELSE IF ~DecodesAsIllustDetail(text.value)
                    THEN Err([kind |-> "JsonError", variant |-> "JsonError",
                              msg |-> <<text.value>>])
                    ELSE Ok([illust |-> text.value])]

(***************************************************************************)
(* Inputs                                                                  *)
(***************************************************************************)
MaxIllustId == 2

AccessTokens == {"tokA", "tokB"} \cup BadHeaderTexts
RefreshTokens == {"refA"}
BaseUrlTexts == {<<"https://other.example">>}
Methods == {"GET", "POST"}
Hosts == {CanonicalHost, "other.example"}
Urls ==
    {[scheme |-> "https", host |-> h, path |-> "/v1/illust/detail"] : h \in Hosts}
    \cup {[scheme |-> "", host |-> "", path |-> "v1/illust/detail"]}
AppBaseUrls == {[scheme |-> "https", host |-> h] : h \in Hosts}
Bodies == {NoBody, Some("b")}

Answer(status, body, readable) ==
    [kind |-> "response", status |-> status, body |-> body, readable |-> readable]
TransportFailure == [kind |-> "fail"]

\* What the network may do with a request.
Outcomes ==
    {TransportFailure,
     Answer(199, "early", TRUE),
     Answer(200, "{illust}", TRUE),
     Answer(200, "not json", TRUE),
     Answer(200, "{illust}", FALSE),
     Answer(299, "{illust}", TRUE),
     Answer(300, "moved", TRUE),
     Answer(404, "{error}", TRUE),
     Answer(404, "{error}", FALSE),
     Answer(500, "", FALSE)}

\* The answers in store for one call: the first, and the one a second
\* attempt would get.
NetScripts == {<<o, r>> : o \in Outcomes, r \in {Answer(200, "{illust}", TRUE)}}

\* The texts the request runs build their transports from (by index in
\* IpTexts): 210.140.131.145, ::1, 2001:db8::A and invalid_ip.
RequestTexts == {1, 3, 4, 6}

(***************************************************************************)
(* The state machine.  Every call leaves its observation in `last`.        *)
(***************************************************************************)
Init ==
    /\ transport = NoTransport
    /\ app = NoApp
    /\ lastSet = None
    /\ madeFrom = 0
    /\ last = NoCall
    /\ peer = NoTransport
    /\ pair = NoCall
    /\ now = Epoch
    /\ auth = NoAuth
    /\ seen = NoCall
    /\ tasks = NoTasks
    /\ granted = NoGrant
    /\ frozen = None

Constructed(op, i, made) ==
    [op |-> op, input |-> i, result |-> made.result, io |-> made.io]
Changed(op, via, arg) == [op |-> op, via |-> via, arg |-> arg]
Observe(op, via, call) ==
    [op |-> op, via |-> via,
     sent |-> call.sent, served |-> call.served, result |-> call.result]

RequestOps == {"send_request", "get", "post", "illust_detail"}

\* What BypassSniClient::new and BypassSniAppClient::with_ip make of each text
\* of IpTexts: a constructor reads nothing but its argument, so each result
\* is worked out once and every run takes it from here.
BypassSniClientsMade ==
    {[input |-> i, made |-> BypassSniClient_new(IpTexts[i].text)] : i \in DOMAIN IpTexts}
BypassSniAppClientsMade ==
    {[input |-> i, made |-> BypassSniAppClient_with_ip(IpTexts[i].text)]
         : i \in DOMAIN IpTexts}
MadeOf(table, i) == (CHOOSE entry \in table : entry.input = i).made

\* let client = HttpClient::new()?
NewHttpClient ==
    /\ transport' = HttpClient_new
    /\ app' = NoApp
    /\ lastSet' = None
    /\ madeFrom' = 0
    /\ last' = Constructed("HttpClient::new", 0,
                           [result |-> Ok(HttpClient_new), io |-> <<>>])
    /\ UNCHANGED <<peer, pair, aux>>

\* let client = BypassSniClient::new(text)?  An Err leaves the caller with
\* what it had.
NewBypassSniClient(i) ==
    \E made \in {MadeOf(BypassSniClientsMade, i)} :
        /\ last' = Constructed("BypassSniClient::new", i, made)
        /\ IF made.result.ok
           THEN /\ transport' = made.result.value
                /\ app' = NoApp
                /\ lastSet' = None
                /\ madeFrom' = i
           ELSE UNCHANGED <<transport, app, lastSet, madeFrom>>
        /\ UNCHANGED <<peer, pair, aux>>

\* let client = BypassSniAppClient::with_ip(text)?
WithIp(i) ==
    \E made \in {MadeOf(BypassSniAppClientsMade, i)} :
        /\ last' = Constructed("BypassSniAppClient::with_ip", i, made)
        /\ IF made.result.ok
           THEN /\ app' = made.result.value
                /\ transport' = NoTransport
                /\ lastSet' = None
                /\ madeFrom' = i
                /\ frozen' = None
           ELSE UNCHANGED <<transport, app, lastSet, madeFrom, frozen>>
        /\ UNCHANGED <<peer, pair, now, auth, seen, tasks, granted>>

\* let client = BypassSniAppClient::new(transport): the transport moves in.
AppNew ==
    /\ transport.kind = "BypassSniClient"
    /\ app' = BypassSniAppClient_new(transport)
    /\ transport' = NoTransport
    /\ last' = Changed("BypassSniAppClient::new", "BypassSniAppClient", None)
    /\ frozen' = access_token(transport)
    /\ UNCHANGED <<lastSet, madeFrom, peer, pair, now, auth, seen, tasks, granted>>

\* client.set_base_url(url) on the endpoint client
AppSetBaseUrl(b) ==
    /\ app # NoApp
    /\ app' = [app EXCEPT !.base_url = b]
    /\ last' = Changed("set_base_url", "BypassSniAppClient", b)
    /\ UNCHANGED <<transport, lastSet, madeFrom, peer, pair, aux>>

SetAccessToken(token) ==
    /\ transport # NoTransport
    /\ transport' = set_access_token(transport, token)
    /\ lastSet' = token
    /\ last' = Changed("set_access_token", transport.kind, token)
    /\ UNCHANGED <<app, madeFrom, peer, pair, aux>>

SetRefreshToken(token) ==
    /\ transport # NoTransport
    /\ transport' = set_refresh_token(transport, token)
    /\ last' = Changed("set_refresh_token", transport.kind, token)
    /\ UNCHANGED <<app, lastSet, madeFrom, peer, pair, aux>>

SetBaseUrl(url) ==
    /\ transport # NoTransport
    /\ transport' = set_base_url(transport, url)
    /\ last' = Changed("set_base_url", transport.kind, url)
    /\ UNCHANGED <<app, lastSet, madeFrom, peer, pair, aux>>

SendRequest(method, url, body, net) ==
    /\ transport # NoTransport
    /\ last' = Observe("send_request", transport.kind,
                       send_request(transport, method, url, body, net))
    /\ UNCHANGED <<transport, app, lastSet, madeFrom, peer, pair, aux>>

Get(url, net) ==
    /\ transport # NoTransport
    /\ last' = Observe("get", transport.kind, get(transport, url, net))
    /\ UNCHANGED <<transport, app, lastSet, madeFrom, peer, pair, aux>>

Post(url, body, net) ==
    /\ transport # NoTransport
    /\ last' = Observe("post", transport.kind, post(transport, url, body, net))
    /\ UNCHANGED <<transport, app, lastSet, madeFrom, peer, pair, aux>>

IllustDetail(illust_id, net) ==
    /\ app # NoApp
    /\ last' = Observe("illust_detail", "BypassSniAppClient",
                       illust_detail(app, illust_id, net))
    /\ UNCHANGED <<transport, app, lastSet, madeFrom, peer, pair, aux>>

Next ==
    \/ NewHttpClient
    \/ \E i \in RequestTexts : NewBypassSniClient(i)
    \/ \E i \in RequestTexts : WithIp(i)
    \/ AppNew
    \/ \E b \in AppBaseUrls : AppSetBaseUrl(b)
    \/ \E token \in AccessTokens : SetAccessToken(token)
    \/ \E token \in RefreshTokens : SetRefreshToken(token)
    \/ \E u \in BaseUrlTexts : SetBaseUrl(u)
    \/ \E m \in Methods, u \in Urls, b \in Bodies, net \in NetScripts :
           SendRequest(m, u, b, net)
    \/ \E u \in Urls, net \in NetScripts : Get(u, net)
    \/ \E u \in Urls, b \in {"b"}, net \in NetScripts : Post(u, b, net)
    \/ \E id \in 1..MaxIllustId, net \in NetScripts : IllustDetail(id, net)

Spec == Init /\ [][Next]_vars

\* Construction alone, over every text of IpTexts.
NextNew ==
    \/ NewHttpClient
    \/ \E i \in DOMAIN IpTexts : NewBypassSniClient(i)
    \/ \E i \in DOMAIN IpTexts : WithIp(i)
    \/ AppNew
    \/ \E token \in AccessTokens : SetAccessToken(token)

SpecNew == Init /\ [][NextNew]_vars

(***************************************************************************)
(* The clock, the header generator and the AuthClient as a state machine.  *)
(***************************************************************************)
\* The instants a run's clock starts at: 1970-01-01T23:59:58,
\* 2024-02-29T23:59:59 and 2024-12-31T23:59:59, all UTC.
StartInstants == {86398, 1709251199, 1735689599}

\* How far the clock runs on from its start, in ticks.
MaxTicks == 3

Later(t, ticks) ==
    [secs |-> t.secs + (t.frac + ticks) \div TicksPerSecond,
     frac |-> (t.frac + ticks) % TicksPerSecond]

\* The ticks from instant a to instant b.
TicksBetween(a, b) == (b.secs - a.secs) * TicksPerSecond + (b.frac - a.frac)

\* The ticks the clock has run since its start.
Elapsed(t) ==
    LET starts == {s \in StartInstants \cup {Epoch.secs} : s <= t.secs}
        start  == CHOOSE s \in starts : \A r \in starts : r <= s
    IN  TicksBetween([secs |-> start, frac |-> 0], t)

Usernames == {"user"}
Passwords == {"password"}
GivenRefreshTokens == {"ref0"}

\* The orders a HashMap of two entries may be iterated in.
Orders == {<<1, 2>>, <<2, 1>>}

\* What the auth endpoint may do with a token request.
AuthOutcomes ==
    {TransportFailure,
     Answer(199, "early", TRUE),
     Answer(200, "{auth1}", TRUE),
     Answer(200, "{auth2}", TRUE),
     Answer(200, "not json", TRUE),
     Answer(200, "{auth1}", FALSE),
     Answer(302, "moved", TRUE),
     Answer(400, "{invalid_grant}", TRUE),
     Answer(400, "{invalid_grant}", FALSE),
     Answer(503, "", TRUE)}
AuthNetScripts == {<<o>> : o \in AuthOutcomes}

\* What the API answers the transport beside the AuthClient.
AuthSideNetScripts ==
    {<<o, o>> : o \in {TransportFailure, Answer(200, "{illust}", TRUE)}}

\* The few of them the clock runs use.
ClockNetScripts ==
    {<<Answer(200, "{auth1}", TRUE)>>, <<Answer(400, "{invalid_grant}", TRUE)>>}

Generated(via, self, at, headers) ==
    [op |-> "generate_security_headers", via |-> via, at |-> at,
     token |-> self.access_token, headers |-> headers]

Called(op, at, call) ==
    [op |-> op, via |-> "AuthClient", at |-> at,
     sent |-> call.sent, served |-> call.served, result |-> call.result]

InitClock ==
    /\ transport = NoTransport
    /\ app = NoApp
    /\ lastSet = None
    /\ madeFrom = 0
    /\ last = NoCall
    /\ peer = NoTransport
    /\ pair = NoCall
    /\ now \in {[secs |-> s, frac |-> 0] : s \in StartInstants}
    /\ auth = NoAuth
    /\ seen = NoCall
    /\ tasks = NoTasks
    /\ granted = NoGrant
    /\ frozen = None

\* Time passes.
Tick ==
    /\ Elapsed(now) < MaxTicks
    /\ now' = Later(now, 1)
    /\ UNCHANGED <<transport, app, lastSet, madeFrom, last, peer, pair, auth, seen, tasks, granted,
                   frozen>>

\* let headers = client.generate_security_headers()
GenerateSecurityHeaders ==
    /\ transport # NoTransport
    /\ \E made \in {generate_security_headers(transport, now)} :
          \E call \in {Generated(transport.kind, transport, now, made)} :
              /\ last' = call
              /\ seen' = IF seen = NoCall THEN call ELSE seen
    /\ UNCHANGED <<transport, app, lastSet, madeFrom, peer, pair, now, auth, tasks, granted,
                   frozen>>

\* let auth_client = AuthClient::new()?
AuthNew ==
    /\ auth' = AuthClient_new
    /\ last' = Constructed("AuthClient::new", 0,
                           [result |-> Ok(AuthClient_new), io |-> <<>>])
    /\ granted' = NoGrant
    /\ UNCHANGED <<transport, app, lastSet, madeFrom, peer, pair, now, seen, tasks,
                   frozen>>

\* auth_client.login(username, password).await, which takes `took` ticks
Login(username, password, order, net, took) ==
    /\ auth # NoAuth
    /\ Elapsed(now) + took <= MaxTicks
    /\ \E call \in {AuthClient_login(auth, username, password, now, order, net,
                                     Later(now, took))} :
          /\ auth' = call.self
          /\ last' = Called("login", now, call)
          /\ granted' = IF call.result.ok THEN call.result.value ELSE granted
    /\ now' = Later(now, took)
    /\ UNCHANGED <<transport, app, lastSet, madeFrom, peer, pair, seen, tasks, frozen>>

\* auth_client.refresh_access_token(token).await
RefreshAccessToken(token, order, net, took) ==
    /\ auth # NoAuth
    /\ Elapsed(now) + took <= MaxTicks
    /\ \E call \in {AuthClient_refresh_access_token(auth, token, now, order, net,
                                                    Later(now, took))} :
          /\ auth' = call.self
          /\ last' = Called("refresh_access_token", now, call)
          /\ granted' = IF call.result.ok THEN call.result.value ELSE granted
    /\ now' = Later(now, took)
    /\ UNCHANGED <<transport, app, lastSet, madeFrom, peer, pair, seen, tasks, frozen>>

\* The text the clock runs build their bypass transport from: 2001:db8::A.
ClockTexts == {4}

NextClock ==
    \/ NewHttpClient
    \/ \E i \in ClockTexts : NewBypassSniClient(i)
    \/ \E token \in {"tokA"} : SetAccessToken(token)
    \/ Tick
    \/ GenerateSecurityHeaders
    \/ AuthNew
    \/ \E u \in Usernames, p \in Passwords, order \in Orders,
          net \in ClockNetScripts : Login(u, p, order, net, 0)
    \/ \E t \in GivenRefreshTokens, order \in Orders,
          net \in ClockNetScripts : RefreshAccessToken(t, order, net, 0)

SpecClock == InitClock /\ [][NextClock]_vars

\* The AuthClient beside a transport of either kind.
NextAuth ==
    \/ NewHttpClient
    \/ \E i \in ClockTexts : NewBypassSniClient(i)
    \/ \E token \in {"tokA"} : SetAccessToken(token)
    \/ \E u \in Urls, net \in AuthSideNetScripts : Get(u, net)
    \/ AuthNew
    \/ \E u \in Usernames, p \in Passwords, order \in {<<1, 2>>},
          net \in AuthNetScripts, took \in 0..1 : Login(u, p, order, net, took)
    \/ \E t \in GivenRefreshTokens, order \in {<<2, 1>>},
          net \in AuthNetScripts, took \in 0..1 :
           RefreshAccessToken(t, order, net, took)

SpecAuth == Init /\ [][NextAuth]_vars

(***************************************************************************)
(* The AuthClient and the transport inside it, used one after the other:   *)
(* token calls, and requests made through auth_client.client().            *)
(***************************************************************************)
\* AuthClient::client / AuthClient::client_mut
AuthClient_client(self) == self.client

FlowUrls == {[scheme |-> "https", host |-> CanonicalHost, path |-> "/v1/illust/detail"]}
FlowNetScripts ==
    {<<o, o>> : o \in {TransportFailure,
                       Answer(200, "{illust}", TRUE),
                       Answer(403, "{error}", TRUE)}}

\* auth_client.client().get(url).await
AuthClientGet(url, net) ==
    /\ auth # NoAuth
    /\ last' = Observe("get", "AuthClient", get(AuthClient_client(auth), url, net))
    /\ UNCHANGED <<transport, app, lastSet, madeFrom, peer, pair, aux>>

NextFlow ==
    \/ AuthNew
    \/ \E u \in Usernames, p \in Passwords, order \in {<<1, 2>>},
          net \in AuthNetScripts, took \in 0..1 : Login(u, p, order, net, took)
    \/ \E t \in GivenRefreshTokens \cup {"ref1"}, order \in {<<2, 1>>},
          net \in AuthNetScripts, took \in 0..1 :
           RefreshAccessToken(t, order, net, took)
    \/ \E u \in FlowUrls, net \in FlowNetScripts : AuthClientGet(u, net)

SpecFlow == Init /\ [][NextFlow]_vars

(***************************************************************************)
(* AuthClient::is_token_expired.  The 64-bit words of the code are         *)
(* WordBits wide here, a chrono Duration counts ticks in one signed word   *)
(* (milliseconds in an i64 in chrono), and a DateTime lies between         *)
(* MinInstant and MaxInstant seconds (chrono: the years -262143..262142),  *)
(* which is well inside what a Duration can span.                          *)
(***************************************************************************)
WordBits == 16
MaxUnsigned == 2 ^ WordBits - 1
MaxSigned == 2 ^ (WordBits - 1) - 1

MaxInstant == 16000
MinInstant == 0 - MaxInstant

Returned(v) == [returned |-> TRUE, value |-> v]
Panicked(msg) == [returned |-> FALSE, panic |-> msg]

\* `expires_in as i64`: the same bits read as a signed word.
AsSigned(n) == IF n > MaxSigned THEN n - 2 ^ WordBits ELSE n

\* chrono::Duration::seconds: panics when the ticks do not fit the word.
Duration_seconds(seconds) ==
    IF seconds > MaxSigned \div TicksPerSecond \/ seconds < 0 - (MaxSigned \div TicksPerSecond)
    THEN Panicked("Duration::seconds out of bounds")
    ELSE Returned(seconds)

\* DateTime<Utc> + Duration: panics outside the range of DateTime.
DateTime_add(t, seconds) ==
    IF t.secs + seconds > MaxInstant \/ t.secs + seconds < MinInstant
    THEN Panicked("DateTime + Duration overflowed")
    ELSE Returned([secs |-> t.secs + seconds, frac |-> t.frac])

\* a > b on DateTime
LaterThan(a, b) == a.secs > b.secs \/ (a.secs = b.secs /\ a.frac > b.frac)

\* AuthClient::is_token_expired, with Utc::now() read as `clock`
AuthClient_is_token_expired(self, auth_response, clock) ==
    LET lifetime == Duration_seconds(AsSigned(auth_response.expires_in))
    IN  IF ~lifetime.returned THEN lifetime
        ELSE LET expires_at == DateTime_add(auth_response.obtained_at, lifetime.value)
             IN  IF ~expires_at.returned THEN expires_at
                 ELSE LET buffer   == Duration_seconds(5 * 60)
                          deadline == DateTime_add(clock, buffer.value)
                      IN  IF ~deadline.returned THEN deadline
                          ELSE Returned(LaterThan(deadline.value, expires_at.value))

\* The instants the expiry runs are made at, and the responses they are
\* asked about: obtained just now, a second or five minutes or two hours
\* before, at the epoch default; lifetimes around the buffer, the hour, and
\* at the edges of the signed and the unsigned word.
ExpiryInstants == {[secs |-> 7500, frac |-> f] : f \in 0..(TicksPerSecond - 1)}
ObtainedBefore == {0, 1, 300, 3300, 3301, 7200}
ExpiresIn ==
    {0, 1, 299, 300, 301, 3600, 7200, 7499, 7500,
     MaxInstant, MaxSigned \div TicksPerSecond, MaxSigned \div TicksPerSecond + 1,
     MaxSigned, MaxSigned + 1, MaxUnsigned - 3600, MaxUnsigned}

InitExpiry ==
    /\ transport = NoTransport
    /\ app = NoApp
    /\ lastSet = None
    /\ madeFrom = 0
    /\ last = NoCall
    /\ peer = NoTransport
    /\ pair = NoCall
    /\ now \in ExpiryInstants
    /\ auth = NoAuth
    /\ seen = NoCall
    /\ tasks = NoTasks
    /\ granted = NoGrant
    /\ frozen = None

\* auth_client.is_token_expired(&auth_response)
IsTokenExpired(obtained_at, expires_in) ==
    /\ auth # NoAuth
    /\ \E auth_response \in {[access_token |-> "acc1", refresh_token |-> "ref1",
                              token_type |-> "bearer", expires_in |-> expires_in,
                              obtained_at |-> obtained_at]} :
          last' = [op |-> "is_token_expired", via |-> "AuthClient", at |-> now,
                   auth_response |-> auth_response,
                   result |-> AuthClient_is_token_expired(auth, auth_response, now)]
    /\ UNCHANGED <<transport, app, lastSet, madeFrom, peer, pair, aux>>

NextExpiry ==
    \/ AuthNew
    \/ \E before \in ObtainedBefore, f \in 0..(TicksPerSecond - 1), e \in ExpiresIn :
           IsTokenExpired([secs |-> now.secs - before, frac |-> f], e)
    \/ \E e \in ExpiresIn : IsTokenExpired(Epoch, e)

SpecExpiry == InitExpiry /\ [][NextExpiry]_vars

(***************************************************************************)
(* The library in use over a token's lifetime: the caller logs in, time    *)
(* passes, the caller goes on making requests.  The caller never calls     *)
(* refresh_access_token here; whatever refreshing there is must come from  *)
(* the calls it does make.                                                 *)
(***************************************************************************)
\* How late the clock of these runs gets, in seconds.
MaxWait == 7200
Waits == {600, 3000, 3600}
RefreshNetScripts ==
    {<<o>> : o \in {TransportFailure,
                    Answer(200, "{auth1}", TRUE),
                    Answer(200, "{auth2}", TRUE),
                    Answer(400, "{invalid_grant}", TRUE)}}

\* Time passes, `seconds` of it.
Wait(seconds) ==
    /\ now.secs + seconds <= MaxWait
    /\ now' = [now EXCEPT !.secs = @ + seconds]
    /\ UNCHANGED <<transport, app, lastSet, madeFrom, last, peer, pair, auth, seen,
                   tasks, granted, frozen>>

\* The caller's requests, one after the other.
KeepsAsking == \E u \in FlowUrls, net \in FlowNetScripts : AuthClientGet(u, net)

NextRefresh ==
    \/ AuthNew
    \/ \E u \in Usernames, p \in Passwords, order \in {<<1, 2>>},
          net \in RefreshNetScripts : Login(u, p, order, net, 0)
    \/ \E s \in Waits : Wait(s)
    \/ KeepsAsking

\* The caller that goes on making requests for ever.
SpecRefresh == Init /\ [][NextRefresh]_vars /\ WF_vars(KeepsAsking)

(***************************************************************************)
(* src/src/utils.rs: parse_qs, safe_filename, extract_extension.  A text   *)
(* is the sequence of its characters; the characters that cannot be        *)
(* written stand as "<nbsp>" (U+00A0), "<grave>" (U+0060), "<control>" (a  *)
(* control character other than tab, line feed, carriage return) and       *)
(* "<non-ascii>".                                                          *)
(***************************************************************************)
\* The printable ASCII characters, from 0x20 on.
Ascii ==
    <<" ", "!", "\"", "#", "$", "%", "&", "'", "(", ")", "*", "+", ",", "-", ".", "/",
      "0", "1", "2", "3", "4", "5", "6", "7", "8", "9", ":", ";", "<", "=", ">", "?",
      "@", "A", "B", "C", "D", "E", "F", "G", "H", "I", "J", "K", "L", "M", "N", "O",
      "P", "Q", "R", "S", "T", "U", "V", "W", "X", "Y", "Z", "[", "\\", "]", "^", "_",
      "<grave>", "a", "b", "c", "d", "e", "f", "g", "h", "i", "j", "k", "l", "m", "n", "o",
      "p", "q", "r", "s", "t", "u", "v", "w", "x", "y", "z", "{", "|", "}", "~">>

\* The character of a byte below 0x80.
AsciiChar(byte) ==
    IF byte >= 32 /\ byte <= 126 THEN Ascii[byte - 31]
    ELSE IF byte = 9 THEN "\t"
    ELSE IF byte = 10 THEN "\n"
    ELSE IF byte = 13 THEN "\r"
    ELSE "<control>"

\* char::is_control
IsControl(c) == c \in {"\t", "\n", "\r", "<control>"}

\* char::is_whitespace
IsWhitespace(c) == c \in {" ", "\t", "\n", "\r", "<nbsp>"}

\* char::to_lowercase
ToLowercase(c) ==
    IF \E i \in 34..59 : Ascii[i] = c
    THEN Ascii[(CHOOSE i \in 34..59 : Ascii[i] = c) + 32]
    ELSE c

\* The %XX escapes of s turned into bytes; every other character stays.
RECURSIVE Unescape(_)
Unescape(s) ==
    IF s = <<>> THEN <<>>
    ELSE IF s[1] = "%" /\ Len(s) >= 3 /\ IsDigit(s[2], 16) /\ IsDigit(s[3], 16)
    THEN <<[byte |-> 16 * DigitVal(s[2]) + DigitVal(s[3])]>>
             \o Unescape(SubSeq(s, 4, Len(s)))
    ELSE <<[char |-> s[1]]>> \o Unescape(Tail(s))

IsByte(item) == "byte" \in DOMAIN item
IsContinuation(item) == IsByte(item) /\ item.byte >= 128 /\ item.byte <= 191

\* How many continuation bytes follow a leading byte of UTF-8; -1 for a
\* byte that cannot lead.
Continuations(byte) ==
    IF byte < 128 THEN 0
    ELSE IF byte >= 194 /\ byte <= 223 THEN 1
    ELSE IF byte >= 224 /\ byte <= 239 THEN 2
    ELSE IF byte >= 240 /\ byte <= 244 THEN 3
    ELSE -1

\* String::from_utf8 on what Unescape gave.
RECURSIVE FromUtf8(_)
FromUtf8(items) ==
    IF items = <<>> THEN Ok(<<>>)
    ELSE IF ~IsByte(items[1])
    THEN LET rest == FromUtf8(Tail(items))
         IN  IF rest.ok THEN Ok(<<items[1].char>> \o rest.value) ELSE rest
    ELSE LET n == Continuations(items[1].byte)
         IN  IF n < 0 \/ Len(items) < n + 1
                \/ \E i \in 2..(n + 1) : ~IsContinuation(items[i])
             THEN Err("invalid utf-8 sequence")
             ELSE LET rest == FromUtf8(SubSeq(items, n + 2, Len(items)))
                  IN  IF ~rest.ok THEN rest
                      ELSE Ok(<<IF n = 0 THEN AsciiChar(items[1].byte)
                                ELSE "<non-ascii>">> \o rest.value)

\* urlencoding::decode
UrlDecode(s) == FromUtf8(Unescape(s))

\* str::split_once('=')
SplitOnce(s, c) ==
    IF \A i \in DOMAIN s : s[i] # c THEN [some |-> FALSE]
    ELSE LET p == CHOOSE i \in DOMAIN s : s[i] = c /\ \A j \in 1..(i - 1) : s[j] # c
         IN  [some |-> TRUE, key |-> SubSeq(s, 1, p - 1),
              value |-> SubSeq(s, p + 1, Len(s))]

\* HashMap::insert on a map held as its set of <<key, value>> entries.
MapInsert(map, key, value) == {e \in map : e[1] # key} \cup {<<key, value>>}

\* The body of the loop of parse_qs for one pair.
ParsePair(result, param) ==
    LET kv == SplitOnce(param, "=")
    IN  IF ~kv.some THEN result
        ELSE LET decoded_key == UrlDecode(kv.key)
                 decoded_value == UrlDecode(kv.value)
             IN  IF decoded_key.ok /\ decoded_value.ok
                 THEN MapInsert(result, decoded_key.value, decoded_value.value)
                 ELSE MapInsert(result, kv.key, kv.value)

RECURSIVE ParsePairs(_, _)
ParsePairs(result, pairs) ==
    IF pairs = <<>> THEN result
    ELSE ParsePairs(ParsePair(result, Head(pairs)), Tail(pairs))

\* parse_qs
parse_qs(url) ==
    LET parts == SplitOn(url, "?")
    IN  IF Len(parts) < 2 THEN {}
        ELSE ParsePairs({}, SplitOn(parts[2], "&"))

\* str::trim_start
RECURSIVE TrimStart(_)
TrimStart(s) ==
    IF s # <<>> /\ IsWhitespace(Head(s)) THEN TrimStart(Tail(s)) ELSE s

\* str::trim_end
RECURSIVE TrimEnd(_)
TrimEnd(s) ==
    IF s # <<>> /\ IsWhitespace(s[Len(s)]) THEN TrimEnd(SubSeq(s, 1, Len(s) - 1)) ELSE s

\* Trimming at the front alone.
TrimFrontOnly(s) == TrimStart(s)

\* str::trim
Trim(s) == TrimEnd(TrimStart(s))

UnsafeChars == {"/", "\\", ":", "*", "?", "\"", "<", ">", "|"}

\* safe_filename
safe_filename(input) ==
    Trim([i \in DOMAIN input |->
            IF input[i] \in UnsafeChars THEN "_"
            ELSE IF IsControl(input[i]) THEN "_"
            ELSE input[i]])

\* str::rfind('.'): the place of the last dot, 0 when there is none.
RFind(s, c) ==
    IF \A i \in DOMAIN s : s[i] # c THEN 0
    ELSE CHOOSE i \in DOMAIN s : s[i] = c /\ \A j \in (i + 1)..Len(s) : s[j] # c

\* extract_extension; None is [some |-> FALSE].
extract_extension(url) ==
    LET url_without_query == SplitOn(url, "?")[1]
        path_parts == SplitOn(url_without_query, "/")
        file_name  == path_parts[Len(path_parts)]
        dot_pos    == RFind(file_name, ".")
        extension  == SubSeq(file_name, dot_pos + 1, Len(file_name))
    IN  IF dot_pos # 0 /\ extension # <<>>
        THEN Some([i \in DOMAIN extension |-> ToLowercase(extension[i])])
        ELSE NoBody

\* The texts the three functions are given: what follows the head of a URL,
\* and file names, piece by piece up to MaxPieces pieces.
MaxPieces == 4
SeqsUpTo(pieces, n) == UNION {[1..k -> pieces] : k \in 0..n}

QueryHead == <<"h", ":", "/", "/", "e", ".", "c", "/", "a", "p", "i">>
QueryPieces == {<<"k">>, <<"=">>, <<"&">>, <<"?">>, <<"#">>,
                <<"%", "2", "0">>, <<"%", "F", "F">>}
QueryUrls ==
    {QueryHead} \cup
    {QueryHead \o <<"?">> \o Join(q, <<>>) : q \in SeqsUpTo(QueryPieces, MaxPieces)}

NamePieces == {<<"a">>, <<".">>, <<"/">>, <<":">>, <<" ">>, <<"\t">>, <<"<nbsp>">>,
               <<"_">>}
Names == {Join(n, <<>>) : n \in SeqsUpTo(NamePieces, MaxPieces)}

ImageHeads == {<<"h", ":", "/", "/", "e", ".", "c">>, <<"h", ":", "/", "/", "e">>}
ImagePieces == {<<"i">>, <<".">>, <<"/">>, <<"?">>, <<"#">>, <<"J">>}
ImageUrls ==
    {h \o Join(p, <<>>) : h \in ImageHeads, p \in SeqsUpTo(ImagePieces, MaxPieces)}

\* A text handed to one of the three functions, and what came back for it.
Given(op, input) == [op |-> "given", for |-> op, input |-> input]
Applied(op, input, result) == [op |-> op, input |-> input, result |-> result]

InitUtils ==
    /\ transport = NoTransport
    /\ app = NoApp
    /\ lastSet = None
    /\ madeFrom = 0
    /\ last \in {Given("parse_qs", url) : url \in QueryUrls}
                \cup {Given("safe_filename", input) : input \in Names}
                \cup {Given("extract_extension", url) : url \in ImageUrls}
    /\ peer = NoTransport
    /\ pair = NoCall
    /\ now = Epoch
    /\ auth = NoAuth
    /\ seen = NoCall
    /\ tasks = NoTasks
    /\ granted = NoGrant
    /\ frozen = None

\* let params = parse_qs(url)
ParseQs ==
    /\ last.op = "given"
    /\ last.for = "parse_qs"
    /\ last' = Applied("parse_qs", last.input, parse_qs(last.input))
    /\ UNCHANGED <<transport, app, lastSet, madeFrom, peer, pair, aux>>

\* let safe = safe_filename(name)
SafeFilename ==
    /\ last.op = "given"
    /\ last.for = "safe_filename"
    /\ last' = Applied("safe_filename", last.input, safe_filename(last.input))
    /\ UNCHANGED <<transport, app, lastSet, madeFrom, peer, pair, aux>>

\* extract_extension(url)
ExtractExtension ==
    /\ last.op = "given"
    /\ last.for = "extract_extension"
    /\ last' = Applied("extract_extension", last.input, extract_extension(last.input))
    /\ UNCHANGED <<transport, app, lastSet, madeFrom, peer, pair, aux>>

NextUtils ==
    \/ ParseQs
    \/ SafeFilename
    \/ ExtractExtension

SpecUtils == InitUtils /\ [][NextUtils]_vars

(***************************************************************************)
(* Every call that may touch a transport's fields, on the caller's own     *)
(* transport and on the one inside an AuthClient (reached through          *)
(* client_mut() and client()).                                             *)
(***************************************************************************)
\* auth_client.client_mut().set_access_token(token)
AuthClientSetAccessToken(token) ==
    /\ auth # NoAuth
    /\ auth' = [auth EXCEPT !.client = set_access_token(@, token)]
    /\ last' = Changed("set_access_token", "AuthClient", token)
    /\ UNCHANGED <<transport, app, lastSet, madeFrom, peer, pair, now, seen, tasks,
                   granted, frozen>>

\* auth_client.client_mut().set_refresh_token(token)
AuthClientSetRefreshToken(token) ==
    /\ auth # NoAuth
    /\ auth' = [auth EXCEPT !.client = set_refresh_token(@, token)]
    /\ last' = Changed("set_refresh_token", "AuthClient", token)
    /\ UNCHANGED <<transport, app, lastSet, madeFrom, peer, pair, now, seen, tasks,
                   granted, frozen>>

TokensNetScripts ==
    {<<o, o>> : o \in {TransportFailure, Answer(200, "{illust}", TRUE)}}
TokensAuthNetScripts ==
    {<<o>> : o \in {TransportFailure,
                    Answer(200, "{auth1}", TRUE),
                    Answer(200, "not json", TRUE),
                    Answer(400, "{invalid_grant}", TRUE)}}

NextTokens ==
    \/ NewHttpClient
    \/ \E i \in ClockTexts : NewBypassSniClient(i)
    \/ \E token \in {"tokA"} : SetAccessToken(token)
    \/ \E token \in RefreshTokens : SetRefreshToken(token)
    \/ \E u \in {<<"https://proxy.example">>} : SetBaseUrl(u)
    \/ \E u \in FlowUrls, net \in TokensNetScripts : SendRequest("GET", u, NoBody, net)
    \/ \E u \in FlowUrls, net \in TokensNetScripts : Get(u, net)
    \/ \E u \in FlowUrls, net \in TokensNetScripts : Post(u, "b", net)
    \/ GenerateSecurityHeaders
    \/ AuthNew
    \/ \E u \in Usernames, p \in Passwords, net \in TokensAuthNetScripts :
           Login(u, p, <<1, 2>>, net, 0)
    \/ \E t \in GivenRefreshTokens, net \in TokensAuthNetScripts :
           RefreshAccessToken(t, <<1, 2>>, net, 0)
    \/ \E token \in {"tokA"} : AuthClientSetAccessToken(token)
    \/ \E token \in RefreshTokens : AuthClientSetRefreshToken(token)
    \/ \E u \in FlowUrls, net \in TokensNetScripts : AuthClientGet(u, net)

SpecTokens == Init /\ [][NextTokens]_vars

(***************************************************************************)
(* Endpoint clients beside the transport they were built from.  An         *)
(* endpoint client takes its transport by value: the caller hands over     *)
(* the transport itself or a clone of it, or a clone of the transport      *)
(* inside the AuthClient, and goes on using what it kept.                  *)
(***************************************************************************)
\* #[derive(Clone)] on HttpClient and BypassSniClient: field by field.
Clone(self) == [field \in DOMAIN self |-> self[field]]

\* AppClient::new with a cleared transport.
AppClient_new_anonymous(http_client) ==
    [http_client |-> [http_client EXCEPT !.access_token = None],
     base_url |-> [scheme |-> "https", host |-> CanonicalHost]]

\* AppClient::new
AppClient_new(http_client) ==
    [http_client |-> http_client,
     base_url |-> [scheme |-> "https", host |-> CanonicalHost]]

\* AppClient::illust_detail
AppClient_illust_detail(self, illust_id, net) ==
    LET url    == Format(self.base_url, "/v1/illust/detail")
        params == <<<<"illust_id", illust_id>>>>
        call   == HttpClient_send_request(self.http_client, "GET", url,
                                          Some(params), net)
        text   == ResponseText(call.result.value)
    IN  [sent |-> call.sent, served |-> call.served,
         result |-> IF ~call.result.ok THEN call.result
                    ELSE IF ~text.ok THEN text
                    ELSE IF ~DecodesAsIllustDetail(text.value)
                    THEN Err([kind |-> "JsonError", variant |-> "JsonError",
                              msg |-> <<text.value>>])
                    ELSE Ok([illust |-> text.value])]

\* PublicClient::new
PublicClient_new(http_client) == [http_client |-> http_client]

\* The base URL texts of an HttpClient, read as a scheme and a host.
BaseOf(text) ==
    IF text = <<"https://app-api.pixiv.net">>
    THEN [scheme |-> "https", host |-> CanonicalHost]
    ELSE IF text = <<"https://other.example">>
    THEN [scheme |-> "https", host |-> "other.example"]
    ELSE IF text = <<"https://proxy.example">>
    THEN [scheme |-> "https", host |-> "proxy.example"]
    ELSE [scheme |-> "", host |-> ""]

\* serde_json::from_str::<PublicUserDetail>: the bodies that decode.
DecodesAsUserDetail(text) == text = "{user}"

\* PublicClient::user_detail, the filter left to its default
PublicClient_user_detail(self, user_id, net) ==
    LET url    == Format(BaseOf(base_url(self.http_client)), "/v1/user/detail")
        params == <<<<"user_id", user_id>>, <<"filter", "for_ios">>>>
        call   == HttpClient_send_request(self.http_client, "GET", url,
                                          Some(params), net)
        text   == ResponseText(call.result.value)
    IN  [sent |-> call.sent, served |-> call.served,
         result |-> IF ~call.result.ok THEN call.result
                    ELSE IF ~text.ok THEN text
                    ELSE IF ~DecodesAsUserDetail(text.value)
                    THEN Err([kind |-> "JsonError", variant |-> "JsonError",
                              msg |-> <<text.value>>])
                    ELSE Ok([user |-> text.value])]

\* The transport value the caller builds an endpoint client from.
Handed(source) ==
    IF source = "auth" THEN Clone(AuthClient_client(auth))
    ELSE IF source = "cloned" THEN Clone(transport)
    ELSE transport

MayHand(source, kind) ==
    IF source = "auth" THEN auth # NoAuth /\ kind = "HttpClient"
    ELSE transport.kind = kind

\* What is left with the caller: nothing after a move.
Kept(source) == IF source = "moved" THEN NoTransport ELSE transport

\* let app = AppClient::new(transport), AppClient::new(transport.clone()) or
\* AppClient::new(auth_client.client().clone())
AppClientNew(source) ==
    /\ MayHand(source, "HttpClient")
    /\ app' = AppClient_new(Handed(source))
    /\ frozen' = access_token(Handed(source))
    /\ transport' = Kept(source)
    /\ last' = Changed("AppClient::new", "AppClient", source)
    /\ UNCHANGED <<lastSet, madeFrom, peer, pair, now, auth, seen, tasks, granted>>

\* let public = PublicClient::new(...), from the same three sources
PublicClientNew(source) ==
    /\ MayHand(source, "HttpClient")
    /\ app' = PublicClient_new(Handed(source))
    /\ frozen' = access_token(Handed(source))
    /\ transport' = Kept(source)
    /\ last' = Changed("PublicClient::new", "PublicClient", source)
    /\ UNCHANGED <<lastSet, madeFrom, peer, pair, now, auth, seen, tasks, granted>>

\* let app = BypassSniAppClient::new(transport.clone())
BypassAppFromClone ==
    /\ MayHand("cloned", "BypassSniClient")
    /\ app' = BypassSniAppClient_new(Handed("cloned"))
    /\ frozen' = access_token(Handed("cloned"))
    /\ last' = Changed("BypassSniAppClient::new", "BypassSniAppClient", "cloned")
    /\ UNCHANGED <<transport, lastSet, madeFrom, peer, pair, now, auth, seen, tasks,
                   granted>>

\* Which endpoint client the caller holds.
IsAppClient(client) ==
    /\ client # NoApp
    /\ client.http_client.kind = "HttpClient"
    /\ "base_url" \in DOMAIN client
IsPublicClient(client) ==
    /\ client # NoApp
    /\ client.http_client.kind = "HttpClient"
    /\ "base_url" \notin DOMAIN client
IsBypassSniAppClient(client) ==
    /\ client # NoApp
    /\ client.http_client.kind = "BypassSniClient"

\* app.illust_detail(id).await on an AppClient
AppIllustDetail(illust_id, net) ==
    /\ IsAppClient(app)
    /\ last' = Observe("illust_detail", "AppClient",
                       AppClient_illust_detail(app, illust_id, net))
    /\ UNCHANGED <<transport, app, lastSet, madeFrom, peer, pair, aux>>

\* public.user_detail(id, None).await
PublicUserDetail(user_id, net) ==
    /\ IsPublicClient(app)
    /\ last' = Observe("user_detail", "PublicClient",
                       PublicClient_user_detail(app, user_id, net))
    /\ UNCHANGED <<transport, app, lastSet, madeFrom, peer, pair, aux>>

\* app.illust_detail(id).await on a BypassSniAppClient
BypassIllustDetail(illust_id, net) ==
    /\ IsBypassSniAppClient(app)
    /\ IllustDetail(illust_id, net)

\* app.set_base_url(url) on an AppClient
AppClientSetBaseUrl(b) ==
    /\ IsAppClient(app)
    /\ app' = [app EXCEPT !.base_url = b]
    /\ last' = Changed("set_base_url", "AppClient", b)
    /\ UNCHANGED <<transport, lastSet, madeFrom, peer, pair, aux>>

\* app.set_base_url(url) on a BypassSniAppClient
BypassAppSetBaseUrl(b) ==
    /\ IsBypassSniAppClient(app)
    /\ AppSetBaseUrl(b)

FrozenBaseUrls == {[scheme |-> "https", host |-> "other.example"]}
FrozenTokens == {"tokA", "tokB"}
FrozenNetScripts ==
    {<<o, o>> : o \in {TransportFailure,
                       Answer(200, "{illust}", TRUE),
                       Answer(200, "{user}", TRUE)}}
FrozenAuthNetScripts ==
    {<<o>> : o \in {Answer(200, "{auth1}", TRUE),
                    Answer(200, "{auth2}", TRUE),
                    Answer(400, "{invalid_grant}", TRUE)}}

NextFrozen ==
    \/ NewHttpClient
    \/ \E i \in ClockTexts : NewBypassSniClient(i)
    \/ \E token \in FrozenTokens : SetAccessToken(token)
    \/ AuthNew
    \/ \E u \in Usernames, p \in Passwords, net \in FrozenAuthNetScripts :
           Login(u, p, <<1, 2>>, net, 0)
    \/ \E t \in GivenRefreshTokens, net \in FrozenAuthNetScripts :
           RefreshAccessToken(t, <<1, 2>>, net, 0)
    \/ \E token \in FrozenTokens : AuthClientSetAccessToken(token)
    \/ AppNew
    \/ \E i \in ClockTexts \cup {6} : WithIp(i)
    \/ BypassAppFromClone
    \/ \E source \in {"moved", "cloned", "auth"} : AppClientNew(source)
    \/ \E source \in {"moved", "cloned", "auth"} : PublicClientNew(source)
    \/ \E b \in FrozenBaseUrls : AppClientSetBaseUrl(b)
    \/ \E b \in FrozenBaseUrls : BypassAppSetBaseUrl(b)
    \/ \E net \in FrozenNetScripts : AppIllustDetail(1, net)
    \/ \E net \in FrozenNetScripts : PublicUserDetail(1, net)
    \/ \E net \in FrozenNetScripts : BypassIllustDetail(1, net)

SpecFrozen == Init /\ [][NextFrozen]_vars

(***************************************************************************)
(* One transport shared by several callers.  send_request takes &self and  *)
(* its future keeps that borrow until it returns; set_access_token takes   *)
(* &mut self.  A call is two steps, split at request.send().await: the     *)
(* request is built and sent, then the response is dealt with.  The        *)
(* assignment of the token is two steps as well: between them the field    *)
(* is neither the old text nor the new one.                                *)
(***************************************************************************)
NumCallers == 2
Callers == 1..NumCallers

Idle == [pc |-> "idle"]

\* The token field while `self.access_token = Some(token)` is under way.
Torn == "torn"

\* A shared borrow handed out whatever else is held.
MayBorrowSharedUnchecked(held) == TRUE

\* &self: a shared borrow is to be had while no exclusive one is held.
MayBorrowShared(held) == held.setter = Idle

\* &mut self: the exclusive borrow is to be had while nothing else is held.
MayBorrowMut(held) ==
    /\ held.setter = Idle
    /\ \A c \in DOMAIN held.calls : held.calls[c] = Idle

SharedTokens == {"tokA", "tokB"}
SharedUrls == {[scheme |-> "https", host |-> CanonicalHost, path |-> "/v1/illust/detail"]}
SharedNetScripts ==
    {<<o, o>> : o \in {TransportFailure,
                       Answer(200, "{illust}", TRUE),
                       Answer(404, "{error}", TRUE)}}

InitShared ==
    /\ \/ /\ transport = HttpClient_new
          /\ madeFrom = 0
       \/ \E i \in {1} :
              \E made \in {BypassSniClient_new(IpTexts[i].text)} :
                  /\ made.result.ok
                  /\ transport = made.result.value
                  /\ madeFrom = i
    /\ app = NoApp
    /\ lastSet = None
    /\ last = NoCall
    /\ peer = NoTransport
    /\ pair = NoCall
    /\ now = Epoch
    /\ auth = NoAuth
    /\ seen = NoCall
    /\ tasks = [calls |-> [c \in Callers |-> Idle], setter |-> Idle]
    /\ granted = NoGrant
    /\ frozen = None

\* Caller c calls client.get(url): the request is built from the fields as
\* they are and sent; the answer the network has in store comes later.
BeginGet(c, url, net) ==
    /\ tasks.calls[c] = Idle
    /\ MayBorrowShared(tasks)
    /\ \E call \in {get(transport, url, net)} :
          tasks' = [tasks EXCEPT !.calls[c] =
                       [pc |-> "sent", url |-> url, net |-> net,
                        latest |-> lastSet, call |-> call]]
    /\ UNCHANGED <<transport, app, lastSet, madeFrom, last, peer, pair, now, auth, seen, granted,
                   frozen>>

\* The answer arrives; caller c's call returns and its borrow ends.
FinishGet(c) ==
    /\ tasks.calls[c] # Idle
    /\ last' = [op |-> "get", via |-> transport.kind, caller |-> c,
                latest |-> tasks.calls[c].latest,
                sent |-> tasks.calls[c].call.sent,
                served |-> tasks.calls[c].call.served,
                result |-> tasks.calls[c].call.result]
    /\ tasks' = [tasks EXCEPT !.calls[c] = Idle]
    /\ UNCHANGED <<transport, app, lastSet, madeFrom, peer, pair, now, auth, seen, granted,
                   frozen>>

\* client.set_access_token(token) starts: the old text goes.
BeginSetAccessToken(token) ==
    /\ MayBorrowMut(tasks)
    /\ tasks' = [tasks EXCEPT !.setter = [pc |-> "writing", token |-> token]]
    /\ transport' = [transport EXCEPT !.access_token = Torn]
    /\ UNCHANGED <<app, lastSet, madeFrom, last, peer, pair, now, auth, seen, granted,
                   frozen>>

\* ... and ends: the new text is in place, the exclusive borrow ends.
FinishSetAccessToken ==
    /\ tasks.setter # Idle
    /\ transport' = set_access_token(transport, tasks.setter.token)
    /\ lastSet' = tasks.setter.token
    /\ tasks' = [tasks EXCEPT !.setter = Idle]
    /\ UNCHANGED <<app, madeFrom, last, peer, pair, now, auth, seen, granted, frozen>>

NextShared ==
    \/ \E c \in Callers, u \in SharedUrls, net \in SharedNetScripts : BeginGet(c, u, net)
    \/ \E c \in Callers : FinishGet(c)
    \/ \E token \in SharedTokens : BeginSetAccessToken(token)
    \/ FinishSetAccessToken

SpecShared == InitShared /\ [][NextShared]_vars

(***************************************************************************)
(* Properties                                                              *)
(***************************************************************************)
TransportOps == {"send_request", "get", "post"}
BypassVias == {"BypassSniClient", "BypassSniAppClient"}

HostHeader(name) == <<[name |-> "host", value |-> <<name>>]>>
BearerHeader(token) == <<[name |-> "authorization", value |-> <<"Bearer ", token>>]>>

\* C1: every request that leaves a BypassSniClient (get, post, send_request,
\* or an endpoint method on top of it) carries exactly one Host header, and
\* its value is app-api.pixiv.net, whatever the IP, URL, method, body, token.
C1_HostIsCanonical ==
    (last.op \in RequestOps /\ last.via \in BypassVias) =>
        \A i \in DOMAIN last.sent :
            HeaderValues(last.sent[i].headers, "host") = HostHeader(CanonicalHost)

C1_Witness ==
    /\ last.op = "send_request"
    /\ last.via = "BypassSniClient"
    /\ Len(last.sent) = 1
    /\ last.sent[1].url.host # CanonicalHost
    /\ last.sent[1].method = "POST"
    /\ transport.access_token = "tokB"
    /\ IpTexts[madeFrom].literal = "v6"

\* C2: every request that leaves a BypassSniClient goes to the IP given at
\* construction, port 443, whatever host its URL names.
C2_AlwaysPinned ==
    (last.op \in RequestOps /\ last.via \in BypassVias) =>
        \A i \in DOMAIN last.sent :
            last.sent[i].target =
                [ip |-> IpTexts[madeFrom].addr, port |-> 443, dns |-> None]

\* C3: a bypass transport built from "210.140.131.145" that sends a GET to a
\* URL on app-api.pixiv.net (as illust_detail does under the default base
\* URL) connects to 210.140.131.145:443 and sends Host: app-api.pixiv.net.
C3_DefaultPath ==
    (/\ last.op \in RequestOps
     /\ last.via \in BypassVias
     /\ IpTexts[madeFrom].text =
            <<"2", "1", "0", ".", "1", "4", "0", ".", "1", "3", "1", ".", "1", "4", "5">>)
    => \A i \in DOMAIN last.sent :
          (last.sent[i].method = "GET" /\ last.sent[i].url.host = "app-api.pixiv.net")
          => /\ last.sent[i].target =
                    [ip |-> [v |-> 4, parts |-> <<210, 140, 131, 145>>],
                     port |-> 443, dns |-> None]
             /\ HeaderValues(last.sent[i].headers, "host")
                    = HostHeader("app-api.pixiv.net")

C3_Witness ==
    /\ last.op = "illust_detail"
    /\ IpTexts[madeFrom].addr = [v |-> 4, parts |-> <<210, 140, 131, 145>>]
    /\ app.base_url.host = "app-api.pixiv.net"
    /\ Len(last.sent) = 1
    /\ last.sent[1].method = "GET"
    /\ last.sent[1].target.ip = [v |-> 4, parts |-> <<210, 140, 131, 145>>]
    /\ last.result.ok

ConstructorOps == {"BypassSniClient::new", "BypassSniAppClient::with_ip"}

\* C4: built from a text that is no IP literal, BypassSniClient::new and
\* BypassSniAppClient::with_ip return Err(NetworkError(InvalidUrl)), hold no
\* transport, and cause no network traffic.
C4_NonIpRefused ==
    (last.op \in ConstructorOps /\ IpTexts[last.input].literal = "none") =>
        /\ ~last.result.ok
        /\ last.result.err.kind = "NetworkError"
        /\ last.result.err.variant = "InvalidUrl"
        /\ last.io = <<>>

C4_Witness ==
    /\ last.op = "BypassSniAppClient::with_ip"
    /\ IpTexts[last.input].text = <<"n", "o", "t", "_", "a", "n", "_", "i", "p">>
    /\ ~last.result.ok
    /\ app = NoApp

C6_BearerIsLatest ==
    last.op \in RequestOps =>
        \A i \in DOMAIN last.sent :
            HeaderValues(last.sent[i].headers, "authorization") =
                IF lastSet = None THEN <<>> ELSE BearerHeader(lastSet)

C6_Witness ==
    /\ last.op = "get"
    /\ last.via = "HttpClient"
    /\ lastSet = "tokB"
    /\ Len(last.sent) = 1
    /\ HeaderValues(last.sent[1].headers, "authorization") = BearerHeader("tokB")

\* The response the server gave, as the caller should hold it.
AsServed(o) ==
    [status |-> o.status, body |-> o.body, readable |-> o.readable, consumed |-> FALSE]

\* C7: when the exchange completed, a status in 200..299 comes back as
\* Ok(the response as served) and any other status as Err(ApiError) whose
\* message holds that status.
C7_StatusDecides ==
    (/\ last.op \in TransportOps
     /\ Len(last.served) = 1
     /\ last.served[1].kind = "response")
    => IF last.served[1].status \in 200..299
       THEN last.result = Ok(AsServed(last.served[1]))
       ELSE /\ ~last.result.ok
            /\ last.result.err.kind = "ApiError"
            /\ last.result.err.msg[2] = last.served[1].status

C7_Witness ==
    /\ last.op = "get"
    /\ last.via = "BypassSniClient"
    /\ Len(last.served) = 1
    /\ last.served[1].kind = "response"
    /\ last.served[1].status = 300
    /\ last.result.err.kind = "ApiError"

\* C8: a non-success response whose body cannot be read still gives
\* Err(ApiError) with the status, the text replaced by the placeholder.
C8_PlaceholderBody ==
    (/\ last.op \in TransportOps
     /\ Len(last.served) = 1
     /\ last.served[1].kind = "response"
     /\ last.served[1].status \notin 200..299
     /\ ~last.served[1].readable)
    => /\ ~last.result.ok
       /\ last.result.err.kind = "ApiError"
       /\ last.result.err.msg[2] = last.served[1].status
       /\ last.result.err.msg[4] = "Failed to get error information"

C8_Witness ==
    /\ last.op = "post"
    /\ last.via = "HttpClient"
    /\ Len(last.served) = 1
    /\ last.served[1].kind = "response"
    /\ last.served[1].status = 404
    /\ ~last.served[1].readable
    /\ last.result.err.kind = "ApiError"

\* C9: a call makes at most one exchange; a failed exchange comes back as
\* Err(NetworkError), a non-success status as Err(ApiError), and a request
\* that was never sent as Err(NetworkError): none of them as Ok.
C9_NoRetryNoSwallow ==
    last.op \in TransportOps =>
        /\ Len(last.sent) <= 1
        /\ Len(last.served) = Len(last.sent)
        /\ (last.sent = <<>> \/ last.served[1].kind = "fail") =>
               (~last.result.ok /\ last.result.err.kind = "NetworkError")
        /\ (last.sent # <<>> /\ last.served[1].kind = "response"
                /\ last.served[1].status \notin 200..299) =>
               (~last.result.ok /\ last.result.err.kind = "ApiError")

C9_Witness ==
    /\ last.op = "send_request"
    /\ Len(last.sent) = 1
    /\ last.served[1].kind = "fail"
    /\ ~last.result.ok
    /\ last.result.err.kind = "NetworkError"

(***************************************************************************)
(* Side by side: an HttpClient and a BypassSniClient given the same calls  *)
(* and the same answers from the network.                                  *)
(***************************************************************************)
InitPair ==
    /\ transport = HttpClient_new
    /\ \E i \in RequestTexts :
          \E made \in {BypassSniClient_new(IpTexts[i].text)} :
              /\ made.result.ok
              /\ peer = made.result.value
              /\ madeFrom = i
    /\ app = NoApp
    /\ lastSet = None
    /\ last = NoCall
    /\ pair = NoCall
    /\ now = Epoch
    /\ auth = NoAuth
    /\ seen = NoCall
    /\ tasks = NoTasks
    /\ granted = NoGrant
    /\ frozen = None

PairSetAccessToken(token) ==
    /\ transport' = set_access_token(transport, token)
    /\ peer' = set_access_token(peer, token)
    /\ lastSet' = token
    /\ last' = Changed("set_access_token", transport.kind, token)
    /\ pair' = Changed("set_access_token", peer.kind, token)
    /\ UNCHANGED <<app, madeFrom, aux>>

PairSetRefreshToken(token) ==
    /\ transport' = set_refresh_token(transport, token)
    /\ peer' = set_refresh_token(peer, token)
    /\ last' = Changed("set_refresh_token", transport.kind, token)
    /\ pair' = Changed("set_refresh_token", peer.kind, token)
    /\ UNCHANGED <<app, lastSet, madeFrom, aux>>

PairSetBaseUrl(url) ==
    /\ transport' = set_base_url(transport, url)
    /\ peer' = set_base_url(peer, url)
    /\ last' = Changed("set_base_url", transport.kind, url)
    /\ pair' = Changed("set_base_url", peer.kind, url)
    /\ UNCHANGED <<app, lastSet, madeFrom, aux>>

PairSendRequest(method, url, body, net) ==
    /\ last' = Observe("send_request", transport.kind,
                       HttpClient_send_request(transport, method, url, body, net))
    /\ pair' = Observe("send_request", peer.kind,
                       BypassSniClient_send_request(peer, method, url, body, net))
    /\ UNCHANGED <<transport, peer, app, lastSet, madeFrom, aux>>

PairGet(url, net) ==
    /\ last' = Observe("get", transport.kind, get(transport, url, net))
    /\ pair' = Observe("get", peer.kind, get(peer, url, net))
    /\ UNCHANGED <<transport, peer, app, lastSet, madeFrom, aux>>

PairPost(url, body, net) ==
    /\ last' = Observe("post", transport.kind, post(transport, url, body, net))
    /\ pair' = Observe("post", peer.kind, post(peer, url, body, net))
    /\ UNCHANGED <<transport, peer, app, lastSet, madeFrom, aux>>

NextPair ==
    \/ \E token \in AccessTokens : PairSetAccessToken(token)
    \/ \E token \in RefreshTokens : PairSetRefreshToken(token)
    \/ \E u \in BaseUrlTexts : PairSetBaseUrl(u)
    \/ \E m \in Methods, u \in Urls, b \in Bodies, net \in NetScripts :
           PairSendRequest(m, u, b, net)
    \/ \E u \in Urls, net \in NetScripts : PairGet(u, net)
    \/ \E u \in Urls, b \in {"b"}, net \in NetScripts : PairPost(u, b, net)

SpecPair == InitPair /\ [][NextPair]_vars

Without(headers, names) == SelectSeq(headers, LAMBDA h : h.name \notin names)

\* The two transports agree on a call up to the headers named.
AgreeUpTo(names) ==
    /\ transport.access_token = peer.access_token
    /\ transport.refresh_token = peer.refresh_token
    /\ last.op = pair.op
    /\ last.op \in TransportOps =>
         /\ last.result = pair.result
         /\ Len(last.sent) = Len(pair.sent)
         /\ \A i \in DOMAIN last.sent :
              /\ last.sent[i].method = pair.sent[i].method
              /\ last.sent[i].url = pair.sent[i].url
              /\ last.sent[i].body = pair.sent[i].body
              /\ HeaderValues(last.sent[i].headers, "authorization")
                     = HeaderValues(pair.sent[i].headers, "authorization")
              /\ Without(last.sent[i].headers, names)
                     = Without(pair.sent[i].headers, names)

AuthOps == {"login", "refresh_access_token"}

\* C11: no HttpClient, the one inside an AuthClient included, accepts an
\* invalid certificate, and every request that leaves one (get on the
\* transport, login, refresh_access_token) is sent with certificate
\* validation on, whatever BypassSniClient was built before or is held
\* beside it; validation is off on a BypassSniClient alone.
C11_OnlyBypassSkipsValidation ==
    /\ transport.kind = "HttpClient" => ~transport.client.accept_invalid_certs
    /\ auth # NoAuth => ~auth.client.client.accept_invalid_certs
    /\ (last.op \in RequestOps \cup AuthOps /\ last.via \in {"HttpClient", "AuthClient"})
       => \A i \in DOMAIN last.sent : last.sent[i].verify_certs

C11_Witness ==
    /\ transport.kind = "BypassSniClient"
    /\ transport.client.accept_invalid_certs
    /\ auth # NoAuth
    /\ last.op = "login"
    /\ Len(last.sent) = 1
    /\ last.sent[1].verify_certs
    /\ last.result.ok

\* The one override a bypass transport built from IpTexts[i] holds.
Pinned(self, i) ==
    /\ self.client.resolve =
           {[host |-> "app-api.pixiv.net",
             addr |-> [ip |-> IpTexts[i].addr, port |-> 443]]}
    /\ Cardinality(self.client.resolve) = 1
    /\ self.ip = IpTexts[i].addr

\* C12: a BypassSniClient, from its construction on and through every token
\* setter, set_base_url and request, holds exactly one resolution override:
\* app-api.pixiv.net to (the IP it was built from, 443); its requests to
\* that host go to that IP.
C12_OneOverrideForGood ==
    /\ transport.kind = "BypassSniClient" => Pinned(transport, madeFrom)
    /\ app # NoApp => Pinned(app.http_client, madeFrom)
    /\ (last.op \in RequestOps /\ last.via \in BypassVias) =>
          \A i \in DOMAIN last.sent :
              last.sent[i].url.host = "app-api.pixiv.net" =>
                  last.sent[i].target =
                      [ip |-> IpTexts[madeFrom].addr, port |-> 443, dns |-> None]

C12_Witness ==
    /\ transport.kind = "BypassSniClient"
    /\ transport.base_url = <<"https://other.example">>
    /\ transport.access_token = "tokA"
    /\ transport.refresh_token = "refA"
    /\ last.op = "post"
    /\ Len(last.sent) = 1
    /\ last.sent[1].url.host = "app-api.pixiv.net"
    /\ Pinned(transport, madeFrom)

\* The Authorization header a request built under token t carries.
AuthorizationFor(t) == IF t = None THEN <<>> ELSE BearerHeader(t)

HeaderValue(headers, name) ==
    IF Len(HeaderValues(headers, name)) = 1
    THEN HeaderValues(headers, name)[1].value
    ELSE <<>>

\* YYYY-MM-DDTHH:MM:SS+00:00
IsTimeText(s) ==
    /\ Len(s) = 25
    /\ \A i \in {1, 2, 3, 4, 6, 7, 9, 10, 12, 13, 15, 16, 18, 19} : IsDigit(s[i], 10)
    /\ s[5] = "-" /\ s[8] = "-" /\ s[11] = "T" /\ s[14] = ":" /\ s[17] = ":"
    /\ SubSeq(s, 20, 25) = <<"+", "0", "0", ":", "0", "0">>

\* C14: every header set generate_security_headers returns, on either
\* transport and with or without a token, holds exactly x-client-time and
\* x-client-hash, both non-empty, and the time reads YYYY-MM-DDTHH:MM:SS+00:00.
C14_TimeAndHashPresent ==
    last.op = "generate_security_headers" =>
        /\ {last.headers[i].name : i \in DOMAIN last.headers}
               = {"x-client-time", "x-client-hash"}
        /\ Len(last.headers) = 2
        /\ HeaderValue(last.headers, "x-client-hash") # <<>>
        /\ IsTimeText(HeaderValue(last.headers, "x-client-time"))

C14_Witness ==
    /\ last.op = "generate_security_headers"
    /\ last.via = "BypassSniClient"
    /\ last.token = "tokA"
    /\ last.at.secs = 1709251200
    /\ HeaderValue(last.headers, "x-client-time") =
           <<"2", "0", "2", "4", "-", "0", "3", "-", "0", "1", "T",
             "0", "0", ":", "0", "0", ":", "0", "0", "+", "0", "0", ":", "0", "0">>

\* C15: two generate_security_headers calls at least one second of wall
\* clock apart return different x-client-time values.
C15_SecondApartDiffers ==
    (/\ last.op = "generate_security_headers"
     /\ seen # NoCall
     /\ TicksBetween(seen.at, last.at) >= TicksPerSecond)
    => HeaderValue(seen.headers, "x-client-time")
           # HeaderValue(last.headers, "x-client-time")

C15_Witness ==
    /\ last.op = "generate_security_headers"
    /\ seen # NoCall
    /\ TicksBetween(seen.at, last.at) = TicksPerSecond
    /\ seen.at.frac # 0
    /\ last.at.secs \div 60 = seen.at.secs \div 60
    /\ HeaderValue(seen.headers, "x-client-time")
           # HeaderValue(last.headers, "x-client-time")

\* C16: the headers are a function of the clock reading alone: the time is
\* that reading formatted, the hash the digest of the time followed by the
\* secret, whatever transport and token state the call is made on and
\* whatever an earlier call returned, so two sets with equal time are equal;
\* a login or refresh_access_token request carries the pair of the clock
\* reading of that very call.
C16_FunctionOfClockAlone ==
    /\ last.op = "generate_security_headers" =>
          /\ HeaderValue(last.headers, "x-client-time") = FormatTime(last.at)
          /\ HeaderValue(last.headers, "x-client-hash")
                 = Md5Hex(FormatTime(last.at) \o HashSecret)
          /\ (seen # NoCall
              /\ HeaderValue(seen.headers, "x-client-time")
                     = HeaderValue(last.headers, "x-client-time"))
             => HeaderValue(seen.headers, "x-client-hash")
                    = HeaderValue(last.headers, "x-client-hash")
    /\ last.op \in AuthOps =>
          \A i \in DOMAIN last.sent :
              /\ HeaderValue(last.sent[i].headers, "x-client-time") = FormatTime(last.at)
              /\ HeaderValue(last.sent[i].headers, "x-client-hash")
                     = Md5Hex(FormatTime(last.at) \o HashSecret)

C16_Witness ==
    /\ last.op = "login"
    /\ Len(last.sent) = 1
    /\ auth.client.access_token = "acc1"
    /\ seen # NoCall
    /\ seen.via = "HttpClient"
    /\ seen.token = "tokA"
    /\ seen.at.secs < last.at.secs
    /\ HeaderValue(last.sent[1].headers, "x-client-time")
           # HeaderValue(seen.headers, "x-client-time")
    /\ HeaderValue(last.sent[1].headers, "x-client-time") = FormatTime(now)

\* The query parameters of a URL (a URL the code builds names none).
UrlQuery(url) == IF "query" \in DOMAIN url THEN url.query ELSE <<>>

\* C17: a GET request carries its argument as query parameters of the URL
\* and no body; a POST with an argument carries it as a JSON body under a
\* JSON content type; so the GET of illust_detail has illust_id in its query.
C17_ArgumentByMethod ==
    last.op \in RequestOps =>
        \A i \in DOMAIN last.sent :
            /\ last.sent[i].method = "GET" => last.sent[i].body = NoBody
            /\ (last.sent[i].method = "POST" /\ last.sent[i].body # NoBody) =>
                   /\ last.sent[i].body.v[1] = "json"
                   /\ HeaderValue(last.sent[i].headers, "content-type")
                          = <<"application/json">>
            /\ last.op = "illust_detail" => UrlQuery(last.sent[i].url) # <<>>

\* C18: a call that returns Ok returns the response as the server gave it,
\* its body not read by the transport; the endpoint method on top reads and
\* decodes it then.
C18_BodyLeftToCaller ==
    /\ (last.op \in TransportOps /\ last.result.ok) =>
          /\ Len(last.served) = 1
          /\ ~last.result.value.consumed
          /\ last.result.value.body = last.served[1].body
          /\ last.result.value.readable = last.served[1].readable
    /\ (/\ last.op = "illust_detail"
        /\ Len(last.served) = 1
        /\ last.served[1] = Answer(200, "{illust}", TRUE))
       => last.result = Ok([illust |-> "{illust}"])

C18_Witness ==
    /\ last.op = "get"
    /\ last.via = "HttpClient"
    /\ last.result.ok
    /\ last.result.value.status = 299
    /\ last.result.value.body = "{illust}"
    /\ ~last.result.value.consumed

\* One step of the caller, as the accessors see it; bypassDefault is the
\* base URL a bypass transport is to start with.
AccessorsFollow(bypassDefault) ==
    /\ last'.op = "HttpClient::new" =>
          /\ access_token(transport') = None
          /\ refresh_token(transport') = None
          /\ base_url(transport') = <<"https://app-api.pixiv.net">>
    /\ (last'.op = "BypassSniClient::new" /\ last'.result.ok) =>
          /\ access_token(transport') = None
          /\ refresh_token(transport') = None
          /\ base_url(transport') = bypassDefault
    /\ last'.op = "set_access_token" =>
          /\ access_token(transport') = last'.arg
          /\ refresh_token(transport') = refresh_token(transport)
          /\ base_url(transport') = base_url(transport)
    /\ last'.op = "set_refresh_token" =>
          /\ refresh_token(transport') = last'.arg
          /\ access_token(transport') = access_token(transport)
          /\ base_url(transport') = base_url(transport)
    /\ (last'.op = "set_base_url" /\ last'.via # "BypassSniAppClient") =>
          /\ base_url(transport') = last'.arg
          /\ access_token(transport') = access_token(transport)
          /\ refresh_token(transport') = refresh_token(transport)
    /\ (\/ last'.op \in TransportOps
        \/ (last'.op = "BypassSniClient::new" /\ ~last'.result.ok
            /\ transport # NoTransport)) =>
          /\ access_token(transport') = access_token(transport)
          /\ refresh_token(transport') = refresh_token(transport)
          /\ base_url(transport') = base_url(transport)

\* C19 as claimed: the accessors return None, None and the default base URL
\* after construction (https://app-api.pixiv.net, or https:// followed by
\* the text the bypass transport was built from), a setter's argument right
\* after that setter, and what they returned before after any other call.
C19_LastWrittenTextDefault ==
    [][AccessorsFollow(<<"https://", IpTexts[madeFrom'].text>>)]_vars

\* The standard text of the address IpTexts[i] denotes: the text itself,
\* but for 2001:db8::A, whose standard text is in lower case.
StandardText(i) ==
    IF IpTexts[i].text = <<"2", "0", "0", "1", ":", "d", "b", "8", ":", ":", "A">>
    THEN <<"2", "0", "0", "1", ":", "d", "b", "8", ":", ":", "a">>
    ELSE IpTexts[i].text

\* C19 as amended: the same, the default base URL of a bypass transport
\* being https:// followed by the standard text of the address it was built
\* from (the text given, when that is already in standard form).
C19_LastWrittenDisplayDefault ==
    [][AccessorsFollow(<<"https://", StandardText(madeFrom')>>)]_vars

C19_Witness ==
    /\ last.op = "get"
    /\ transport.kind = "BypassSniClient"
    /\ IpTexts[madeFrom].text # StandardText(madeFrom)
    /\ access_token(transport) = "tokB"
    /\ refresh_token(transport) = "refA"
    /\ base_url(transport) = <<"https://other.example">>

\* C20: when the auth endpoint answers with a status outside 200..299, login
\* and refresh_access_token return Err(AuthError): never Ok, no other kind,
\* also when the body of that answer cannot be read.
C20_RejectedIsAuthError ==
    (/\ last.op \in AuthOps
     /\ Len(last.served) = 1
     /\ last.served[1].kind = "response"
     /\ last.served[1].status \notin 200..299)
    => /\ ~last.result.ok
       /\ last.result.err.kind = "AuthError"

C20_Witness ==
    /\ last.op = "refresh_access_token"
    /\ Len(last.served) = 1
    /\ last.served[1].kind = "response"
    /\ last.served[1].status = 400
    /\ ~last.served[1].readable
    /\ ~last.result.ok
    /\ last.result.err.kind = "AuthError"
    /\ auth.client.access_token = "acc1"

\* What a step of the AuthClient is held to.  A login or refresh request
\* made through post would be built as send_request builds one (the bearer
\* of the token held, a JSON body); made on the reqwest client itself it has
\* the form and no Authorization.  Either way: after Ok(r) the transport
\* holds r's two tokens, and a request through that transport carries the
\* bearer of the latest r.
AuthFlowStep(throughPost) ==
    /\ (last'.op \in AuthOps /\ last' # last) =>
          /\ \A i \in DOMAIN last'.sent :
                IF throughPost
                THEN /\ HeaderValues(last'.sent[i].headers, "authorization")
                            = AuthorizationFor(access_token(AuthClient_client(auth)))
                     /\ last'.sent[i].body.some
                     /\ last'.sent[i].body.v[1] = "json"
                ELSE /\ HeaderValues(last'.sent[i].headers, "authorization") = <<>>
                     /\ last'.sent[i].body.some
                     /\ last'.sent[i].body.v[1] = "form"
          /\ last'.result.ok =>
                /\ access_token(AuthClient_client(auth'))
                       = last'.result.value.access_token
                /\ refresh_token(AuthClient_client(auth'))
                       = last'.result.value.refresh_token
                /\ granted' = last'.result.value
    /\ (last'.op = "get" /\ last'.via = "AuthClient" /\ granted' # NoGrant) =>
          /\ access_token(AuthClient_client(auth')) = granted'.access_token
          /\ \A i \in DOMAIN last'.sent :
                HeaderValues(last'.sent[i].headers, "authorization")
                    = BearerHeader(granted'.access_token)

\* C21 as stated: login and refresh_access_token send their request through
\* the transport's post, and after Ok(r) the transport holds r's tokens
\* and every later request through it carries Authorization: Bearer
\* r.access_token.
C21_ThroughPostThenSetters == [][AuthFlowStep(TRUE)]_vars

\* C21 as the code has it: login and refresh_access_token send their request
\* on the transport's reqwest client, past send_request (a form body, no
\* Authorization whatever token is held), and after Ok(r) the transport
\* holds r's tokens and every later request through it carries
\* Authorization: Bearer r.access_token.
C21_DirectPostThenSetters == [][AuthFlowStep(FALSE)]_vars

C21_Witness ==
    /\ last.op = "get"
    /\ last.via = "AuthClient"
    /\ granted # NoGrant
    /\ granted.access_token = "acc2"
    /\ access_token(AuthClient_client(auth)) = "acc2"
    /\ refresh_token(AuthClient_client(auth)) = "ref2"
    /\ Len(last.sent) = 1
    /\ HeaderValues(last.sent[1].headers, "authorization") = BearerHeader("acc2")

\* C22: for every obtained_at and every expires_in of the unsigned word,
\* is_token_expired returns, and returns true exactly when now plus five
\* minutes is later than obtained_at plus expires_in seconds.
C22_FiveMinutesEarly ==
    last.op = "is_token_expired" =>
        /\ last.result.returned
        /\ last.result.value =
               LaterThan([secs |-> last.at.secs + 300, frac |-> last.at.frac],
                         [secs |-> last.auth_response.obtained_at.secs
                                       + last.auth_response.expires_in,
                          frac |-> last.auth_response.obtained_at.frac])

\* The token of the latest Ok login is held and is_token_expired says true.
HoldsExpired ==
    /\ auth # NoAuth
    /\ granted # NoGrant
    /\ access_token(AuthClient_client(auth)) = granted.access_token
    /\ AuthClient_is_token_expired(auth, granted, now) = Returned(TRUE)

\* C23: once the token of a login has expired, a request made through the
\* library leads in the end to the library holding another access token,
\* without the caller calling refresh_access_token.
C23_RefreshedInTheEnd ==
    (HoldsExpired /\ last.op = "get" /\ last.via = "AuthClient") ~> ~HoldsExpired

\* The query string of a URL: what stands between the first "?" and the
\* fragment, if there is a "?" before the fragment at all.
QueryOf(url) == SplitOnce(SplitOn(url, "#")[1], "?")

\* The key=value pairs of a query string, split at the first "=".
PairsOf(query) ==
    {kv \in {SplitOnce(SplitOn(query, "&")[i], "=") : i \in DOMAIN SplitOn(query, "&")} :
        kv.some}

\* C24: parse_qs returns exactly the key=value pairs of the URL's query
\* string, key and value percent-decoded, so that every parameter of the
\* query is found under its decoded key; a URL without "?" gives the empty
\* map.
C24_ExactlyTheQueryPairs ==
    last.op = "parse_qs" =>
        /\ (\A i \in DOMAIN last.input : last.input[i] # "?") => last.result = {}
        /\ LET query == QueryOf(last.input)
               pairs == IF query.some THEN PairsOf(query.value) ELSE {}
           IN  (\A kv \in pairs : UrlDecode(kv.key).ok /\ UrlDecode(kv.value).ok) =>
                   last.result = {<<UrlDecode(kv.key).value, UrlDecode(kv.value).value>> :
                                     kv \in pairs}

\* What safe_filename makes of one character.
Replaced(c) == IF c \in UnsafeChars \/ IsControl(c) THEN "_" ELSE c

\* C25: the result of safe_filename has none of / \ : * ? " < > | and no
\* control character, neither begins nor ends with whitespace, is the input
\* with each such character replaced by "_" and the whitespace at its two
\* ends dropped (every other character as it was, in order), and
\* safe_filename leaves its own result as it is.
C25_SafeAndIdempotent ==
    last.op = "safe_filename" =>
        /\ \A i \in DOMAIN last.result :
              last.result[i] \notin UnsafeChars /\ ~IsControl(last.result[i])
        /\ last.result # <<>> =>
              /\ ~IsWhitespace(last.result[1])
              /\ ~IsWhitespace(last.result[Len(last.result)])
        /\ \E lead \in 0..Len(last.input) :
              /\ lead + Len(last.result) <= Len(last.input)
              /\ \A i \in DOMAIN last.result :
                    last.result[i] = Replaced(last.input[lead + i])
              /\ \A i \in DOMAIN last.input :
                    (i <= lead \/ i > lead + Len(last.result))
                        => IsWhitespace(Replaced(last.input[i]))
        /\ safe_filename(last.result) = last.result

C25_Witness ==
    /\ last.op = "safe_filename"
    /\ last.input = <<" ", "/", "\t", "<nbsp>">>
    /\ last.result = <<"_", "_">>

\* The file name of a URL: the last segment of its path, query and
\* fragment apart; a URL that ends with its host has none.
FileNameOf(url) ==
    LET plain == SplitOn(SplitOn(url, "#")[1], "?")[1]
        rest  == IF Len(plain) >= 4 /\ SubSeq(plain, 1, 4) = <<"h", ":", "/", "/">>
                 THEN SubSeq(plain, 5, Len(plain)) ELSE plain
        parts == SplitOn(rest, "/")
    IN  IF Len(parts) < 2 THEN [some |-> FALSE] ELSE Some(parts[Len(parts)])

\* C26: extract_extension returns what follows the last dot of the URL's
\* file name, lower-cased, whatever the query and the dots of earlier
\* segments, and None when there is no file name or the file name has no
\* dot with something after it.
C26_ExtensionOfTheFileName ==
    last.op = "extract_extension" =>
        LET name == FileNameOf(last.input)
            dot  == IF name.some THEN RFind(name.v, ".") ELSE 0
        IN  IF dot = 0 \/ dot = Len(name.v)
            THEN last.result = NoBody
            ELSE last.result =
                     Some([i \in 1..(Len(name.v) - dot) |-> ToLowercase(name.v[dot + i])])

\* The two tokens of a transport.
TokenPair(self) == <<access_token(self), refresh_token(self)>>

\* C28: a login or refresh_access_token that returns an error (the
\* transport failed, the status was no success, the body of a success did
\* not decode) leaves both tokens of the AuthClient's transport as they
\* were; and with login and refresh calls alone the two tokens are both
\* absent or both those of one Ok AuthResponse.
C28_AllOrNothing ==
    [][/\ (last' # last /\ last'.op \in AuthOps /\ ~last'.result.ok)
             => TokenPair(AuthClient_client(auth')) = TokenPair(AuthClient_client(auth))
       /\ auth' # NoAuth
             => TokenPair(AuthClient_client(auth')) =
                    IF granted' = NoGrant THEN <<None, None>>
                    ELSE <<granted'.access_token, granted'.refresh_token>>]_vars

C28_Witness ==
    /\ last.op = "refresh_access_token"
    /\ Len(last.served) = 1
    /\ last.served[1].kind = "response"
    /\ last.served[1].status = 200
    /\ ~last.result.ok
    /\ granted # NoGrant
    /\ granted.access_token = "acc2"
    /\ TokenPair(AuthClient_client(auth)) = <<"acc2", "ref2">>

\* `after` is `before` but for the one field, which holds `value`.
OnlyField(before, after, field, value) ==
    /\ DOMAIN after = DOMAIN before
    /\ after[field] = value
    /\ \A f \in DOMAIN before \ {field} : after[f] = before[f]

\* What one call may do to the transport it is made on.
FrameOf(op, arg, before, after) ==
    IF op = "set_access_token" THEN OnlyField(before, after, "access_token", arg)
    ELSE IF op = "set_refresh_token" THEN OnlyField(before, after, "refresh_token", arg)
    ELSE IF op = "set_base_url" THEN OnlyField(before, after, "base_url", arg)
    ELSE after = before

FrameOps == {"set_access_token", "set_refresh_token", "set_base_url",
             "send_request", "get", "post", "generate_security_headers"}

\* C27: set_access_token changes the access token and nothing else,
\* set_refresh_token the refresh token and nothing else, set_base_url the
\* base URL and nothing else; get, post, send_request and
\* generate_security_headers, failed or not, change no field of the
\* transport (tokens, base URL, bypass IP, the client with its override).
C27_OnlyTheNamedField ==
    [][(last' # last /\ last'.op \in FrameOps) =>
          IF last'.via = "AuthClient"
          THEN FrameOf(last'.op, IF "arg" \in DOMAIN last' THEN last'.arg ELSE None,
                       AuthClient_client(auth), AuthClient_client(auth'))
          ELSE FrameOf(last'.op, IF "arg" \in DOMAIN last' THEN last'.arg ELSE None,
                       transport, transport')]_vars

C27_Witness ==
    /\ transport.kind = "BypassSniClient"
    /\ access_token(transport) = "tokA"
    /\ refresh_token(transport) = "refA"
    /\ base_url(transport) = <<"https://proxy.example">>
    /\ Pinned(transport, madeFrom)
    /\ last.op = "post"
    /\ ~last.result.ok

TransportConstructors == {"HttpClient::new", "BypassSniClient::new"}

\* A token held before is held after.
StillHeld(before, after) ==
    /\ access_token(before) # None => access_token(after) # None
    /\ refresh_token(before) # None => refresh_token(after) # None

\* C29: on one transport, the caller's or the AuthClient's, no setter,
\* request, login or refresh, failed or not, takes a token away: an access
\* token, and a refresh token, held before the call is held after it.
C29_NeverCleared ==
    [][/\ (transport # NoTransport /\ last'.op \notin TransportConstructors)
             => StillHeld(transport, transport')
       /\ (auth # NoAuth /\ last'.op # "AuthClient::new")
             => StillHeld(AuthClient_client(auth), AuthClient_client(auth'))]_vars

C29_Witness ==
    /\ transport # NoTransport
    /\ access_token(transport) = "tokA"
    /\ refresh_token(transport) = "refA"
    /\ auth # NoAuth
    /\ access_token(AuthClient_client(auth)) = "acc1"
    /\ refresh_token(AuthClient_client(auth)) = "ref1"
    /\ last.op = "refresh_access_token"
    /\ ~last.result.ok

\* The requests endpoint clients make.
EndpointOps == {"illust_detail", "user_detail"}
EndpointClients == {"AppClient", "PublicClient", "BypassSniAppClient"}

====
